---------------------------- MODULE Spec2Model ----------------------------
(***************************************************************************)
(* Model of the coordinate transform chain, the affine calibration solver, *)
(* the viewport controller and the calibration session of the tracking     *)
(* heatmap front end (HeatmapCanvas, HeatmapPanel, App, utils/coordinates).*)
(*                                                                         *)
(* JavaScript numbers are modelled as exact rationals <<n, d>> in lowest   *)
(* terms with d > 0, extended with the IEEE-754 special values             *)
(* <<1, 0>> (Infinity), <<-1, 0>> (-Infinity) and <<0, 0>> (NaN), so that  *)
(* a division by zero yields what the program yields.  Rounding of         *)
(* doubles is not modelled: equalities below are equalities of reals.      *)
(***************************************************************************)
EXTENDS Integers, Sequences, FiniteSets, TLC

VARIABLES
    pIn,          \* inputs of one run of the transform pipeline
    pTrail,       \* the points produced so far by the pipeline stages
    pPath,        \* "full": the whole chain; "short": dataToCanvas/canvasToData only
    sIn,          \* inputs of one call of solveAffineTransform
    sOut,         \* its result ("pending" before the call)
    panelZoom,    \* HeatmapPanel: zoom
    zoom,         \* HeatmapCanvas: zoom
    pan,          \* HeatmapCanvas: pan
    lastWheel,    \* the last wheel step: pointer, zoom and pan before it
    steps,        \* number of viewport events so far
    filtersAdj,   \* App: filters.floorPlanAdjustment
    calibration,  \* App: calibration
    isDrawingZone,\* App: isDrawingZone
    lastToast,    \* App: the last toast shown
    lastEffect,   \* App: outcome of the last run of the compute-calibration effect
    selectedZone, \* App: selectedZone (the id of the zone, 0 for null)
    isPanning,    \* HeatmapCanvas: isPanning
    panStarted,   \* HeatmapCanvas: panStarted
    panStartRef,  \* HeatmapCanvas: panStartRef.current
    drawing,      \* HeatmapCanvas: drawing (Undefined for null)
    createZoneCalls, \* the bodies passed to createZone.mutateAsync so far
    gesture,      \* the last mouse-down: where, and pan and selection before it
    lastUp,       \* the last mouse-up in drawing mode: the rectangle and the calls before it
    zones,        \* the zones of the store and floor (useZones), in list order
    inFlight,     \* createZone requests awaiting their response
    mouseEvents,  \* number of mouse events and button presses so far
    heatmapData,  \* HeatmapPanel: the heatmapData prop (Undefined before a load)
    visibleStats, \* HeatmapPanel: visibleStats (Undefined for null)
    statsDeps,    \* the dependencies the visible-region effect last ran with
    viewMode,     \* App: viewMode
    finalMaxIntensity, \* the peak of the blurred tracks layer for the current inputs
    dwellValues,  \* the least and greatest cell value of the current dwell data
    tracksScaleSettings, \* App: tracksScaleSettings
    dwellScaleSettings,  \* App: dwellScaleSettings
    legendValues, \* HeatmapCanvas: legendValues (Undefined for null)
    timers,       \* the setTimeout(..., 0) callbacks not yet run, oldest first
    drawPending,  \* a dependency of the draw effect has changed since its last run
    lastDraw,     \* the range and divisor of the last tracks draw
    lastFired,    \* the timer that ran in the last step, and the settings it found
    changes,      \* number of input changes so far
    rampIn,       \* the intensity handed to a color ramp
    rampOut,      \* the colors computed so far
    intensityCanvas, \* the red channel of sampled pixels of the intensity canvas
    canvasBefore, \* the same pixels before the last point was drawn
    pointsDrawn,  \* number of points drawn so far in one tracks draw
    vpIn,         \* a canvas point, a zoom and a pan handed to the viewport transforms
    vpOut,        \* what applyZoomPan and inverseZoomPan returned for them
    storeId,      \* App: filters.storeId (0 for null)
    floor,        \* App: filters.floor
    floorPlans,   \* the floor plans of the store (useFloorPlans), in list order
    lastLoadedFloorPlanId, \* App: lastLoadedFloorPlanId.current (0 for null)
    saveTimeout,  \* App: the pending auto-save timer with the values its callback closes over
    effectDeps,   \* the floor plan and alignment the load and auto-save effects last ran with
    lastSave,     \* the adjustFloorPlan request issued since the last change of the
                  \* alignment or of the selection (Undefined when there is none)
    inFlightSaves,\* adjustFloorPlan requests awaiting their response
    editedUnder,  \* the id of the floor plan that was current when the alignment was last set
    edits         \* number of sidebar operations and floor switches so far

pipeVars == <<pIn, pTrail, pPath>>
solveVars == <<sIn, sOut>>
viewVars == <<panelZoom, zoom, pan, lastWheel, steps>>
appVars == <<filtersAdj, calibration, isDrawingZone, lastToast, lastEffect>>
mouseVars == <<selectedZone, isPanning, panStarted, panStartRef, drawing,
               createZoneCalls, gesture, lastUp, zones, inFlight, mouseEvents>>
statsVars == <<heatmapData, visibleStats, statsDeps>>
scaleVars == <<viewMode, finalMaxIntensity, dwellValues, tracksScaleSettings,
               dwellScaleSettings, legendValues, timers, drawPending, lastDraw, lastFired, changes>>
rampVars == <<rampIn, rampOut>>
accumVars == <<intensityCanvas, canvasBefore, pointsDrawn>>
firstVars == <<pipeVars, solveVars, viewVars, appVars, mouseVars, statsVars, scaleVars, rampVars>>
vpVars == <<vpIn, vpOut>>
alignVars == <<storeId, floor, floorPlans, lastLoadedFloorPlanId, saveTimeout, effectDeps,
               lastSave, inFlightSaves, editedUnder, edits>>
laterVars == <<accumVars, vpVars, alignVars>>
\* the variables a specification leaves alone
outsidePipe == <<solveVars, viewVars, appVars, mouseVars, statsVars, scaleVars, rampVars, laterVars>>
outsideSolve == <<pipeVars, viewVars, appVars, mouseVars, statsVars, scaleVars, rampVars, laterVars>>
outsideView == <<pipeVars, solveVars, appVars, mouseVars, statsVars, scaleVars, rampVars, laterVars>>
outsideApp == <<pipeVars, solveVars, viewVars, mouseVars, statsVars, scaleVars, rampVars, laterVars>>
outsideMouse == <<pipeVars, solveVars, statsVars, scaleVars, rampVars, laterVars>>
outsideScale == <<pipeVars, solveVars, viewVars, appVars, mouseVars, statsVars, rampVars, laterVars>>
outsideRamp == <<pipeVars, solveVars, viewVars, appVars, mouseVars, statsVars, scaleVars, laterVars>>
outsideAccum == <<firstVars, vpVars, alignVars>>
outsideVp == <<firstVars, accumVars, alignVars>>
outsideAlign == <<pipeVars, solveVars, viewVars, mouseVars, statsVars, scaleVars, rampVars,
                  accumVars, vpVars>>
outsideStats == <<pipeVars, solveVars, viewVars, appVars, mouseVars, scaleVars, rampVars, laterVars>>
vars == <<pIn, pTrail, pPath, sIn, sOut, panelZoom, zoom, pan, lastWheel, steps,
          filtersAdj, calibration, isDrawingZone, lastToast, lastEffect,
          selectedZone, isPanning, panStarted, panStartRef, drawing,
          createZoneCalls, gesture, lastUp, zones, inFlight, mouseEvents,
          heatmapData, visibleStats, statsDeps,
          viewMode, finalMaxIntensity, dwellValues, tracksScaleSettings,
          dwellScaleSettings, legendValues, timers, drawPending, lastDraw, lastFired, changes,
          rampIn, rampOut, intensityCanvas, canvasBefore, pointsDrawn,
          vpIn, vpOut, storeId, floor, floorPlans, lastLoadedFloorPlanId, saveTimeout,
          effectDeps, lastSave, inFlightSaves, editedUnder, edits>>

-----------------------------------------------------------------------------
(* JavaScript number arithmetic, on rationals extended with Infinity and NaN *)

Abs(i) == IF i < 0 THEN -i ELSE i

Sgn(i) == IF i < 0 THEN -1 ELSE IF i > 0 THEN 1 ELSE 0

SgnP(i) == IF i < 0 THEN -1 ELSE 1

RECURSIVE GCD(_, _)
GCD(m, n) == IF n = 0 THEN m ELSE GCD(n, m % n)

\* the fraction n / d in lowest terms (n and d are bound to their values first)
Norm(n, d) ==
    CHOOSE r \in
        { IF y = 0 THEN <<Sgn(x), 0>>
          ELSE LET g == GCD(Abs(x), Abs(y))
               IN  <<SgnP(y) * (x \div g), Abs(y) \div g>> :
            x \in {n}, y \in {d} } : TRUE

R(i) == <<i, 1>>

Q(n, d) == Norm(n, d)

NaN == <<0, 0>>

Infinity == <<1, 0>>

NegInfinity == <<-1, 0>>

\* undefined / null: an optional record r is held as <<r>>, an absent one as <<>>
Undefined == <<>>

IsFinite(a) == a[2] # 0

\* (the operands are bound to their values first)
RAdd(l, r) ==
    CHOOSE sum \in
        { IF a[2] = 0 /\ b[2] = 0
          THEN (IF a = b THEN a ELSE NaN)
          ELSE IF a[2] = 0 THEN a
          ELSE IF b[2] = 0 THEN b
          ELSE LET g == GCD(a[2], b[2])
               IN  Norm(a[1] * (b[2] \div g) + b[1] * (a[2] \div g), (a[2] \div g) * b[2]) :
            a \in {l}, b \in {r} } : TRUE

RNeg(a) == <<-a[1], a[2]>>

RSub(a, b) == RAdd(a, RNeg(b))

\* (the operands are bound to their values first)
RMul(l, r) ==
    CHOOSE product \in
        { LET g1 == IF a[2] = 0 \/ b[2] = 0 THEN 1 ELSE GCD(Abs(a[1]), b[2])
              g2 == IF a[2] = 0 \/ b[2] = 0 THEN 1 ELSE GCD(Abs(b[1]), a[2])
              h1 == IF g1 = 0 THEN 1 ELSE g1
              h2 == IF g2 = 0 THEN 1 ELSE g2
          IN  Norm((a[1] \div h1) * (b[1] \div h2), (a[2] \div h2) * (b[2] \div h1)) :
            a \in {l}, b \in {r} } : TRUE

RDiv(a, b) == RMul(a, Norm(b[2] * SgnP(b[1]), Abs(b[1])))

\* a < b; the cross products are taken over the reduced denominators
RLt(a, b) ==
    IF a[2] = 0 \/ b[2] = 0
    THEN a[1] * b[2] < b[1] * a[2]
    ELSE LET g == GCD(a[2], b[2])
         IN  a[1] * (b[2] \div g) < b[1] * (a[2] \div g)

RLe(a, b) == a # NaN /\ b # NaN /\ ~RLt(b, a)

\* Math.floor and Math.round (half up) of a finite number
MathFloor(a) == CHOOSE r \in { R(v[1] \div v[2]) : v \in {a} } : TRUE

MathRound(a) == CHOOSE r \in { R((2 * v[1] + v[2]) \div (2 * v[2])) : v \in {a} } : TRUE

RAbs(a) == <<Abs(a[1]), a[2]>>

\* a !== b on numbers: NaN differs from everything, itself included
RNe(a, b) == a = NaN \/ b = NaN \/ a # b

RMin(a, b) == IF a = NaN \/ b = NaN THEN NaN ELSE IF RLt(b, a) THEN b ELSE a

RMax(a, b) == IF a = NaN \/ b = NaN THEN NaN ELSE IF RLt(a, b) THEN b ELSE a

\* v ?? alt
Coalesce(v, alt) == IF v = Undefined THEN alt ELSE v

\* |a| < 1e-10.  1e-10 = 1 / (100000 * 100000); the comparison
\* |n| * 10^10 < d is staged so that no product leaves the integer range.
BelowEps(a) ==
    /\ a # NaN
    /\ IsFinite(a)
    /\ \/ a[1] = 0
       \/ /\ a[2] >= 100000
          /\ Abs(a[1]) < 100000
          /\ Abs(a[1]) * 100000 <= (a[2] - 1) \div 100000

\* Math.cos / Math.sin of (deg * PI / 180), exact at the multiples of 90
CosDeg(deg) ==
    LET m == ((deg % 360) + 360) % 360
    IN  IF m = 0 THEN R(1) ELSE IF m = 180 THEN R(-1) ELSE R(0)

SinDeg(deg) ==
    LET m == ((deg % 360) + 360) % 360
    IN  IF m = 90 THEN R(1) ELSE IF m = 270 THEN R(-1) ELSE R(0)

Pt(x, y) == [x |-> x, y |-> y]

-----------------------------------------------------------------------------
(* utils/coordinates *)

dataToCanvas(dataX, dataY, floorPlan, canvasWidth, canvasHeight) ==
    LET normX == RDiv(RSub(dataX, floorPlan.data_min_x),
                      RSub(floorPlan.data_max_x, floorPlan.data_min_x))
        normY == RDiv(RSub(dataY, floorPlan.data_min_y),
                      RSub(floorPlan.data_max_y, floorPlan.data_min_y))
    IN  Pt(RMul(normX, canvasWidth), RMul(RSub(R(1), normY), canvasHeight))

canvasToData(canvasX, canvasY, floorPlan, canvasWidth, canvasHeight) ==
    LET normX == RDiv(canvasX, canvasWidth)
        normY == RSub(R(1), RDiv(canvasY, canvasHeight))
    IN  Pt(RAdd(floorPlan.data_min_x,
                RMul(normX, RSub(floorPlan.data_max_x, floorPlan.data_min_x))),
           RAdd(floorPlan.data_min_y,
                RMul(normY, RSub(floorPlan.data_max_y, floorPlan.data_min_y))))

-----------------------------------------------------------------------------
(* HeatmapCanvas: alignment and viewport transforms *)

usesAffine(adjustment) == adjustment.useAffine /\ adjustment.affine # Undefined

transformAffine(x, y, adjustment) ==
    LET m == adjustment.affine[1]
    IN  Pt(RAdd(RAdd(RMul(m.a, x), RMul(m.b, y)), m.tx),
           RAdd(RAdd(RMul(m.c, x), RMul(m.d, y)), m.ty))

transformSimple(x, y, adjustment, canvasWidth, canvasHeight) ==
    LET offsetX == RMul(RDiv(adjustment.offsetX, R(100)), canvasWidth)
        offsetY == RMul(RDiv(adjustment.offsetY, R(100)), canvasHeight)
        scaleX == Coalesce(adjustment.scaleX, Coalesce(adjustment.scale, R(1)))
        scaleY == Coalesce(adjustment.scaleY, Coalesce(adjustment.scale, R(1)))
        centerX == RDiv(canvasWidth, R(2))
        centerY == RDiv(canvasHeight, R(2))
        px == RMul(RSub(x, centerX), scaleX)
        py == RMul(RSub(y, centerY), scaleY)
        cos == CosDeg(adjustment.rotation)
        sin == SinDeg(adjustment.rotation)
        rx == RSub(RMul(px, cos), RMul(py, sin))
        ry == RAdd(RMul(px, sin), RMul(py, cos))
    IN  Pt(RAdd(RAdd(rx, centerX), offsetX), RAdd(RAdd(ry, centerY), offsetY))

\* a faulty variant: the simple offset is added on top of the matrix
transformPointBlended(x, y, adjustment, canvasWidth, canvasHeight) ==
    IF usesAffine(adjustment)
    THEN LET q == transformAffine(x, y, adjustment)
         IN  Pt(RAdd(q.x, RMul(RDiv(adjustment.offsetX, R(100)), canvasWidth)),
                RAdd(q.y, RMul(RDiv(adjustment.offsetY, R(100)), canvasHeight)))
    ELSE transformSimple(x, y, adjustment, canvasWidth, canvasHeight)

transformPoint(x, y, adjustment, canvasWidth, canvasHeight) ==
    IF usesAffine(adjustment)
    THEN transformAffine(x, y, adjustment)
    ELSE transformSimple(x, y, adjustment, canvasWidth, canvasHeight)

affineDet(m) == RSub(RMul(m.a, m.d), RMul(m.b, m.c))

inverseAffineUnguarded(x, y, adjustment) ==
    LET m == adjustment.affine[1]
        invDet == RDiv(R(1), affineDet(m))
        px == RSub(x, m.tx)
        py == RSub(y, m.ty)
    IN  Pt(RMul(RSub(RMul(m.d, px), RMul(m.b, py)), invDet),
           RMul(RAdd(RMul(RNeg(m.c), px), RMul(m.a, py)), invDet))

inverseAffine(x, y, adjustment) ==
    LET m == adjustment.affine[1]
        det == affineDet(m)
    IN  IF BelowEps(det)
        THEN Pt(x, y)
        ELSE LET invDet == RDiv(R(1), det)
                 px == RSub(x, m.tx)
                 py == RSub(y, m.ty)
             IN  Pt(RMul(RSub(RMul(m.d, px), RMul(m.b, py)), invDet),
                    RMul(RAdd(RMul(RNeg(m.c), px), RMul(m.a, py)), invDet))

\* a faulty variant: the scale is divided out without testing it
inverseSimpleUnguarded(x, y, adjustment, canvasWidth, canvasHeight) ==
    LET offsetX == RMul(RDiv(adjustment.offsetX, R(100)), canvasWidth)
        offsetY == RMul(RDiv(adjustment.offsetY, R(100)), canvasHeight)
        scaleX == Coalesce(adjustment.scaleX, Coalesce(adjustment.scale, R(1)))
        scaleY == Coalesce(adjustment.scaleY, Coalesce(adjustment.scale, R(1)))
        centerX == RDiv(canvasWidth, R(2))
        centerY == RDiv(canvasHeight, R(2))
        px == RSub(RSub(x, offsetX), centerX)
        py == RSub(RSub(y, offsetY), centerY)
        cos == CosDeg(-adjustment.rotation)
        sin == SinDeg(-adjustment.rotation)
        rx == RSub(RMul(px, cos), RMul(py, sin))
        ry == RAdd(RMul(px, sin), RMul(py, cos))
    IN  Pt(RAdd(RDiv(rx, scaleX), centerX), RAdd(RDiv(ry, scaleY), centerY))

inverseSimple(x, y, adjustment, canvasWidth, canvasHeight) ==
    LET offsetX == RMul(RDiv(adjustment.offsetX, R(100)), canvasWidth)
        offsetY == RMul(RDiv(adjustment.offsetY, R(100)), canvasHeight)
        scaleX == Coalesce(adjustment.scaleX, Coalesce(adjustment.scale, R(1)))
        scaleY == Coalesce(adjustment.scaleY, Coalesce(adjustment.scale, R(1)))
        centerX == RDiv(canvasWidth, R(2))
        centerY == RDiv(canvasHeight, R(2))
        px == RSub(RSub(x, offsetX), centerX)
        py == RSub(RSub(y, offsetY), centerY)
        cos == CosDeg(-adjustment.rotation)
        sin == SinDeg(-adjustment.rotation)
        rx == RSub(RMul(px, cos), RMul(py, sin))
        ry == RAdd(RMul(px, sin), RMul(py, cos))
        ux == IF RNe(scaleX, R(0)) THEN RDiv(rx, scaleX) ELSE rx
        uy == IF RNe(scaleY, R(0)) THEN RDiv(ry, scaleY) ELSE ry
    IN  Pt(RAdd(ux, centerX), RAdd(uy, centerY))

inverseTransformPoint(x, y, adjustment, canvasWidth, canvasHeight) ==
    IF usesAffine(adjustment)
    THEN inverseAffine(x, y, adjustment)
    ELSE inverseSimple(x, y, adjustment, canvasWidth, canvasHeight)

applyZoomPan(x, y, z, p, canvasWidth, canvasHeight) ==
    LET centerX == RDiv(canvasWidth, R(2))
        centerY == RDiv(canvasHeight, R(2))
    IN  Pt(RAdd(RAdd(RMul(RSub(x, centerX), z), centerX), p.x),
           RAdd(RAdd(RMul(RSub(y, centerY), z), centerY), p.y))

\* a faulty variant: scales about the canvas origin instead of the centre
inverseZoomPanAboutOrigin(x, y, z, p, canvasWidth, canvasHeight) ==
    Pt(RDiv(RSub(x, p.x), z), RDiv(RSub(y, p.y), z))

inverseZoomPan(x, y, z, p, canvasWidth, canvasHeight) ==
    LET centerX == RDiv(canvasWidth, R(2))
        centerY == RDiv(canvasHeight, R(2))
    IN  Pt(RAdd(RDiv(RSub(RSub(x, p.x), centerX), z), centerX),
           RAdd(RDiv(RSub(RSub(y, p.y), centerY), z), centerY))

\* the initial canvas size (useState({ width: 800, height: 600 }))
dimensions == [width |-> R(800), height |-> R(600)]

hasValidDataBounds(dataBounds) ==
    /\ dataBounds # Undefined
    /\ RNe(dataBounds[1].min_x, Infinity)
    /\ RNe(dataBounds[1].max_x, NegInfinity)
    /\ RNe(dataBounds[1].min_y, Infinity)
    /\ RNe(dataBounds[1].max_y, NegInfinity)

\* the reference frame; only the four bounds of a FloorPlan are modelled
virtualFloorPlan(floorPlan, dataBounds) ==
    IF floorPlan # Undefined
    THEN floorPlan[1]
    ELSE LET margin == Q(1, 20)
             valid == hasValidDataBounds(dataBounds)
             b == dataBounds[1]
             dataRangeX == IF valid THEN RSub(b.max_x, b.min_x) ELSE R(0)
             dataRangeY == IF valid THEN RSub(b.max_y, b.min_y) ELSE R(0)
         IN  [data_min_x |-> IF valid THEN RSub(b.min_x, RMul(dataRangeX, margin)) ELSE R(0),
              data_max_x |-> IF valid THEN RAdd(b.max_x, RMul(dataRangeX, margin)) ELSE R(100),
              data_min_y |-> IF valid THEN RSub(b.min_y, RMul(dataRangeY, margin)) ELSE R(0),
              data_max_y |-> IF valid THEN RAdd(b.max_y, RMul(dataRangeY, margin)) ELSE R(100)]

\* a floor plan of the current store and floor, covering 0..100 both ways
loadedFloorPlan ==
    [data_min_x |-> R(0), data_max_x |-> R(100), data_min_y |-> R(0), data_max_y |-> R(100)]

-----------------------------------------------------------------------------
(* Values the variables of a specification hold while it is not the one run *)

IdleAdjustment ==
    [offsetX |-> R(0), offsetY |-> R(0), rotation |-> 0, scale |-> R(1),
     scaleX |-> R(1), scaleY |-> R(1), lockAspectRatio |-> TRUE,
     useAffine |-> FALSE, affine |-> Undefined]

PipeIdle == pIn = <<>> /\ pTrail = <<>> /\ pPath = "none"

SolveIdle == sIn = <<>> /\ sOut = "pending"

ViewIdle ==
    /\ panelZoom = R(1)
    /\ zoom = R(1)
    /\ pan = Pt(R(0), R(0))
    /\ lastWheel = <<>>
    /\ steps = 0

AppIdle ==
    /\ filtersAdj = IdleAdjustment
    /\ calibration = [isCalibrating |-> FALSE, step |-> "heatmap",
                      heatmapPoints |-> <<>>, floorplanPoints |-> <<>>]
    /\ isDrawingZone = FALSE
    /\ lastToast = "none"
    /\ lastEffect = <<>>

MouseIdle ==
    /\ selectedZone = 0
    /\ isPanning = FALSE
    /\ panStarted = FALSE
    /\ panStartRef = [x |-> R(0), y |-> R(0), panX |-> R(0), panY |-> R(0)]
    /\ drawing = Undefined
    /\ createZoneCalls = <<>>
    /\ gesture = <<>>
    /\ lastUp = <<>>
    /\ zones = <<>>
    /\ inFlight = <<>>
    /\ mouseEvents = 0

\* no dataset is loaded: the visible-region effect reports null on every run
StatsIdle ==
    /\ heatmapData = Undefined
    /\ visibleStats = Undefined
    /\ statsDeps = <<>>

\* the canvas has no data to draw: the scale settings are those of App's
\* useState and no legend has been computed
ScaleIdle ==
    /\ viewMode = "tracks"
    /\ finalMaxIntensity = Undefined
    /\ dwellValues = Undefined
    /\ tracksScaleSettings = [auto |-> TRUE, min |-> R(0), max |-> R(1000)]
    /\ dwellScaleSettings = [auto |-> TRUE, min |-> R(30), max |-> R(3600)]
    /\ legendValues = Undefined
    /\ timers = <<>>
    /\ drawPending = FALSE
    /\ lastDraw = <<>>
    /\ lastFired = <<>>
    /\ changes = 0

\* no color has been computed
RampIdle ==
    /\ rampIn = R(0)
    /\ rampOut = [util |-> <<>>, raster |-> <<>>]

\* no tracks draw is under way
AccumIdle ==
    /\ intensityCanvas = <<>>
    /\ canvasBefore = <<>>
    /\ pointsDrawn = 0

\* the viewport transforms have not been called
VpIdle == vpIn = <<>> /\ vpOut = <<>>

\* App is not mounted
AlignIdle ==
    /\ storeId = 0
    /\ floor = 0
    /\ floorPlans = <<>>
    /\ lastLoadedFloorPlanId = 0
    /\ saveTimeout = <<>>
    /\ effectDeps = <<>>
    /\ lastSave = <<>>
    /\ inFlightSaves = <<>>
    /\ editedUnder = 0
    /\ edits = 0

LaterIdle == AccumIdle /\ VpIdle /\ AlignIdle

OutsidePipeIdle ==
    SolveIdle /\ ViewIdle /\ AppIdle /\ MouseIdle /\ StatsIdle /\ ScaleIdle /\ RampIdle /\ LaterIdle

OutsideSolveIdle ==
    PipeIdle /\ ViewIdle /\ AppIdle /\ MouseIdle /\ StatsIdle /\ ScaleIdle /\ RampIdle /\ LaterIdle

\* the viewport specification loads datasets: it sets statsVars itself
OutsideViewIdle ==
    PipeIdle /\ SolveIdle /\ AppIdle /\ MouseIdle /\ ScaleIdle /\ RampIdle /\ LaterIdle

OutsideAppIdle ==
    PipeIdle /\ SolveIdle /\ ViewIdle /\ MouseIdle /\ StatsIdle /\ ScaleIdle /\ RampIdle /\ LaterIdle

OutsideScaleIdle ==
    PipeIdle /\ SolveIdle /\ ViewIdle /\ AppIdle /\ MouseIdle /\ StatsIdle /\ RampIdle /\ LaterIdle

OutsideRampIdle ==
    PipeIdle /\ SolveIdle /\ ViewIdle /\ AppIdle /\ MouseIdle /\ StatsIdle /\ ScaleIdle /\ LaterIdle

FirstIdle ==
    PipeIdle /\ SolveIdle /\ ViewIdle /\ AppIdle /\ MouseIdle /\ StatsIdle /\ ScaleIdle /\ RampIdle

OutsideAccumIdle == FirstIdle /\ VpIdle /\ AlignIdle

OutsideVpIdle == FirstIdle /\ AccumIdle /\ AlignIdle

OutsideAlignIdle ==
    /\ PipeIdle /\ SolveIdle /\ ViewIdle /\ MouseIdle /\ StatsIdle /\ ScaleIdle /\ RampIdle
    /\ AccumIdle /\ VpIdle

OutsideMouseIdle ==
    PipeIdle /\ SolveIdle /\ StatsIdle /\ ScaleIdle /\ RampIdle /\ LaterIdle

-----------------------------------------------------------------------------
(* The transform pipeline, one stage per step:                             *)
(*   dataToCanvas -> transformPoint -> applyZoomPan ->                     *)
(*   inverseZoomPan -> inverseTransformPoint -> canvasToData               *)
(* (forward as in the draw effect and the zone hit test, inverse as in the *)
(* visible-region effect, the hover lookup and zone creation).             *)

MaxData == 2

DataPoints == {Pt(R(50 * i), R(25 * j)) : i \in 0..MaxData, j \in 0..MaxData}

\* heatmapData?.bounds: absent, empty data, a rectangle, a rectangle of zero width
DataBoundsInputs ==
    { Undefined,
      <<[min_x |-> Infinity, max_x |-> NegInfinity, min_y |-> Infinity, max_y |-> NegInfinity]>>,
      <<[min_x |-> R(0), max_x |-> R(100), min_y |-> R(0), max_y |-> R(50)]>>,
      <<[min_x |-> R(50), max_x |-> R(50), min_y |-> R(0), max_y |-> R(50)]>> }

\* the floor plan of the current floor: none, or one with the upload's default bounds
FloorPlanInputs ==
    { Undefined,
      <<[data_min_x |-> R(0), data_max_x |-> R(100), data_min_y |-> R(0), data_max_y |-> R(100)]>> }

FrameInputs ==
    {f \in FloorPlanInputs \X DataBoundsInputs : f[1] = Undefined \/ f[2] = Undefined}

SimpleAdjustments ==
    {[offsetX |-> ox, offsetY |-> R(0), rotation |-> rot, scale |-> sx,
      scaleX |-> sx, scaleY |-> sy, lockAspectRatio |-> (sx = sy),
      useAffine |-> FALSE, affine |-> Undefined] :
        ox \in {R(0), R(10)}, rot \in {0, 90},
        sx \in {R(0), Q(1, 2), R(1)}, sy \in {R(0), R(1)}}

AffineMatrices ==
    { [a |-> R(1), b |-> R(0), c |-> R(0), d |-> R(1), tx |-> R(5), ty |-> R(5)],
      [a |-> R(2), b |-> R(1), c |-> R(1), d |-> R(1), tx |-> R(0), ty |-> R(-20)],
      [a |-> R(0), b |-> R(-1), c |-> Q(1, 2), d |-> R(0), tx |-> R(30), ty |-> R(0)],
      [a |-> R(1), b |-> R(2), c |-> R(2), d |-> R(4), tx |-> R(3), ty |-> R(3)] }

AffineAdjustments ==
    {[IdleAdjustment EXCEPT !.useAffine = TRUE, !.affine = <<m>>] : m \in AffineMatrices}

ZoomInputs == {Q(1, 2), R(1), R(2), R(10)}

PanInputs == {Pt(R(0), R(0)), Pt(R(40), R(-30))}

PipeInit ==
    /\ pIn \in [P : DataPoints,
                frame : FrameInputs,
                adjustment : SimpleAdjustments \cup AffineAdjustments,
                zoom : ZoomInputs,
                pan : PanInputs]
    /\ pTrail = <<pIn.P>>
    /\ pPath \in {"full", "short"}
    /\ OutsidePipeIdle

pFrame == virtualFloorPlan(pIn.frame[1], pIn.frame[2])

pLast == pTrail[Len(pTrail)]

DataToCanvasStep ==
    /\ Len(pTrail) = 1
    /\ pTrail' = Append(pTrail,
          dataToCanvas(pLast.x, pLast.y, pFrame, dimensions.width, dimensions.height))
    /\ UNCHANGED <<pIn, pPath, outsidePipe>>

TransformPointStep ==
    /\ pPath = "full" /\ Len(pTrail) = 2
    /\ pTrail' = Append(pTrail,
          transformPoint(pLast.x, pLast.y, pIn.adjustment, dimensions.width, dimensions.height))
    /\ UNCHANGED <<pIn, pPath, outsidePipe>>

ApplyZoomPanStep ==
    /\ pPath = "full" /\ Len(pTrail) = 3
    /\ pTrail' = Append(pTrail,
          applyZoomPan(pLast.x, pLast.y, pIn.zoom, pIn.pan, dimensions.width, dimensions.height))
    /\ UNCHANGED <<pIn, pPath, outsidePipe>>

InverseZoomPanStep ==
    /\ pPath = "full" /\ Len(pTrail) = 4
    /\ pTrail' = Append(pTrail,
          inverseZoomPan(pLast.x, pLast.y, pIn.zoom, pIn.pan, dimensions.width, dimensions.height))
    /\ UNCHANGED <<pIn, pPath, outsidePipe>>

InverseTransformPointStep ==
    /\ pPath = "full" /\ Len(pTrail) = 5
    /\ pTrail' = Append(pTrail,
          inverseTransformPoint(pLast.x, pLast.y, pIn.adjustment, dimensions.width, dimensions.height))
    /\ UNCHANGED <<pIn, pPath, outsidePipe>>

CanvasToDataStep ==
    /\ (pPath = "full" /\ Len(pTrail) = 6) \/ (pPath = "short" /\ Len(pTrail) = 2)
    /\ pTrail' = Append(pTrail,
          canvasToData(pLast.x, pLast.y, pFrame, dimensions.width, dimensions.height))
    /\ UNCHANGED <<pIn, pPath, outsidePipe>>

PipeNext ==
    \/ DataToCanvasStep
    \/ TransformPointStep
    \/ ApplyZoomPanStep
    \/ InverseZoomPanStep
    \/ InverseTransformPointStep
    \/ CanvasToDataStep

SpecPipe == PipeInit /\ [][PipeNext]_vars

-----------------------------------------------------------------------------
(* Claims about the transform chain *)

pSimpleMode == ~usesAffine(pIn.adjustment)

pInvertibleAffine ==
    usesAffine(pIn.adjustment) /\ ~BelowEps(affineDet(pIn.adjustment.affine[1]))

pSingularAffine ==
    usesAffine(pIn.adjustment) /\ BelowEps(affineDet(pIn.adjustment.affine[1]))

\* C1 (as stated): for every data point, every alignment in simple mode or
\* in affine mode with an invertible matrix, and every viewport, the forward
\* pipeline followed by the inverse pipeline returns the data point.
C1_FullRoundTrip ==
    (pPath = "full" /\ Len(pTrail) = 7 /\ (pSimpleMode \/ pInvertibleAffine))
        => pTrail[7] = pTrail[1]

\* C2 (as stated): for every data point and every reference frame,
\* canvasToData(dataToCanvas(P)) = P.
C2_DataCanvasRoundTrip ==
    (pPath = "short" /\ Len(pTrail) = 3) => pTrail[3] = pTrail[1]

\* C6: in affine mode with |a*d - b*c| < 1e-10, inverseTransformPoint
\* returns its input unchanged (so nothing was divided by the determinant).
C6_SingularAffineInverseIsIdentity ==
    (pPath = "full" /\ Len(pTrail) >= 6 /\ pSingularAffine) => pTrail[6] = pTrail[5]

C6_Witness ==
    /\ pPath = "full" /\ Len(pTrail) >= 6 /\ pSingularAffine
    /\ IsFinite(pTrail[5].x) /\ IsFinite(pTrail[5].y)
    /\ pTrail[6] = pTrail[5]

-----------------------------------------------------------------------------
(* App: solveAffineTransform.  null is Undefined, a transform m is <<m>>. *)

srcDet(src) ==
    LET x1 == src[1].x  y1 == src[1].y
        x2 == src[2].x  y2 == src[2].y
        x3 == src[3].x  y3 == src[3].y
    IN  CHOOSE det \in
          { RAdd(RSub(t1, t2), t3) :
              t1 \in {RMul(x1, RSub(y2, y3))}, t2 \in {RMul(y1, RSub(x2, x3))},
              t3 \in {RSub(RMul(x2, y3), RMul(x3, y2))} } : TRUE

\* a faulty variant: the a/b rows of the inverse are read from the wrong columns
solveCoefficientsTransposed(src, dst) ==
    LET x1 == src[1].x  y1 == src[1].y
        x2 == src[2].x  y2 == src[2].y
        x3 == src[3].x  y3 == src[3].y
        dstX == <<dst[1].x, dst[2].x, dst[3].x>>
        dstY == <<dst[1].y, dst[2].y, dst[3].y>>
        row(inv, i, v) ==
            CHOOSE sum \in
              { RAdd(RAdd(p1, p2), p3) :
                  p1 \in {RMul(inv[i][1], v[1])}, p2 \in {RMul(inv[i][2], v[2])},
                  p3 \in {RMul(inv[i][3], v[3])} } : TRUE
    IN  CHOOSE m \in
          { <<[a |-> row(inv, 1, dstX), b |-> row(inv, 2, dstX), tx |-> row(inv, 3, dstX),
               c |-> row(inv, 1, dstY), d |-> row(inv, 2, dstY), ty |-> row(inv, 3, dstY)]>> :
            inv \in
              { << <<RMul(RSub(y2, y3), invDet), RMul(RSub(x3, x2), invDet), RMul(RSub(y1, y2), invDet)>>,
                   <<RMul(RSub(y3, y1), invDet), RMul(RSub(x1, x3), invDet), RMul(RSub(x2, x1), invDet)>>,
                   <<RMul(c1, invDet), RMul(c2, invDet), RMul(c3, invDet)>> >> :
                invDet \in {RDiv(R(1), det) : det \in {srcDet(src)}},
                c1 \in {RSub(RMul(x2, y3), RMul(x3, y2))},
                c2 \in {RSub(RMul(x3, y1), RMul(x1, y3))},
                c3 \in {RSub(RMul(x1, y2), RMul(x2, y1))} } } : TRUE

solveCoefficients(src, dst) ==
    LET x1 == src[1].x  y1 == src[1].y
        x2 == src[2].x  y2 == src[2].y
        x3 == src[3].x  y3 == src[3].y
        dstX == <<dst[1].x, dst[2].x, dst[3].x>>
        dstY == <<dst[1].y, dst[2].y, dst[3].y>>
        row(inv, i, v) ==
            CHOOSE sum \in
              { RAdd(RAdd(p1, p2), p3) :
                  p1 \in {RMul(inv[i][1], v[1])}, p2 \in {RMul(inv[i][2], v[2])},
                  p3 \in {RMul(inv[i][3], v[3])} } : TRUE
    IN  CHOOSE m \in
          { <<[a |-> row(inv, 1, dstX), b |-> row(inv, 2, dstX), tx |-> row(inv, 3, dstX),
               c |-> row(inv, 1, dstY), d |-> row(inv, 2, dstY), ty |-> row(inv, 3, dstY)]>> :
            inv \in
              { << <<RMul(RSub(y2, y3), invDet), RMul(RSub(y3, y1), invDet), RMul(RSub(y1, y2), invDet)>>,
                   <<RMul(RSub(x3, x2), invDet), RMul(RSub(x1, x3), invDet), RMul(RSub(x2, x1), invDet)>>,
                   <<RMul(c1, invDet), RMul(c2, invDet), RMul(c3, invDet)>> >> :
                invDet \in {RDiv(R(1), det) : det \in {srcDet(src)}},
                c1 \in {RSub(RMul(x2, y3), RMul(x3, y2))},
                c2 \in {RSub(RMul(x3, y1), RMul(x1, y3))},
                c3 \in {RSub(RMul(x1, y2), RMul(x2, y1))} } } : TRUE

\* a faulty variant: the determinant is not tested
solveAffineTransformNoDetGuard(src, dst) ==
    IF Len(src) # 3 \/ Len(dst) # 3 THEN Undefined
    ELSE solveCoefficients(src, dst)

solveAffineTransform(src, dst) ==
    IF Len(src) # 3 \/ Len(dst) # 3 THEN Undefined
    ELSE IF \E det \in {srcDet(src)} : BelowEps(det) THEN Undefined
    ELSE solveCoefficients(src, dst)

MaxSrc == 2

SrcPoints == {Pt(R(10 * i), R(10 * j)) : i \in 0..MaxSrc, j \in 0..MaxSrc}

SrcTriples == {<<p, q, r>> : p \in SrcPoints, q \in SrcPoints, r \in SrcPoints}

DstTriples ==
    { <<Pt(R(5), R(5)), Pt(R(15), R(5)), Pt(R(5), R(15))>>,
      <<Pt(R(0), R(0)), Pt(R(0), R(30)), Pt(R(-20), R(0))>>,
      <<Pt(R(7), R(3)), Pt(R(4), R(9)), Pt(R(12), R(1))>>,
      <<Pt(R(1), R(1)), Pt(R(2), R(2)), Pt(R(3), R(3))>>,
      <<Pt(R(8), R(8)), Pt(R(8), R(8)), Pt(R(8), R(8))>> }

\* a list of 2, 3 or 4 points made from a triple
Resize(t, n) == IF n = 2 THEN <<t[1], t[2]>> ELSE IF n = 3 THEN t ELSE Append(t, t[1])

SolveInit ==
    /\ \E s \in SrcTriples, d \in DstTriples, ns \in 2..4, nd \in 2..4 :
          /\ (ns = 3 \/ nd = 3)
          /\ sIn = [src |-> Resize(s, ns), dst |-> Resize(d, nd)]
    /\ sOut = "pending"
    /\ OutsideSolveIdle

Solve ==
    /\ sOut = "pending"
    /\ sOut' = solveAffineTransform(sIn.src, sIn.dst)
    /\ UNCHANGED <<sIn, outsideSolve>>

SolveNext == Solve

SpecSolve == SolveInit /\ [][SolveNext]_vars

\* the three points lie on one line (twice the signed area of the triangle is 0)
Collinear(src) ==
    RSub(RMul(RSub(src[2].x, src[1].x), RSub(src[3].y, src[1].y)),
         RMul(RSub(src[3].x, src[1].x), RSub(src[2].y, src[1].y))) = R(0)

MapsTo(m, s, d) ==
    /\ RAdd(RAdd(RMul(m.a, s.x), RMul(m.b, s.y)), m.tx) = d.x
    /\ RAdd(RAdd(RMul(m.c, s.x), RMul(m.d, s.y)), m.ty) = d.y

sSolved == sOut # "pending"

sThreeAndThree == Len(sIn.src) = 3 /\ Len(sIn.dst) = 3

\* C4: for 3 non-collinear source points and 3 destination points the solver
\* returns a transform that maps each source point onto its destination
\* point; source (0,0),(10,0),(0,10) with destination (5,5),(15,5),(5,15)
\* gives a = 1, b = 0, c = 0, d = 1, tx = 5, ty = 5.
C4_SolveExact ==
    (sSolved /\ sThreeAndThree /\ ~Collinear(sIn.src)) =>
        /\ sOut # Undefined
        /\ \A i \in 1..3 : MapsTo(sOut[1], sIn.src[i], sIn.dst[i])
        /\ (/\ sIn.src = <<Pt(R(0), R(0)), Pt(R(10), R(0)), Pt(R(0), R(10))>>
            /\ sIn.dst = <<Pt(R(5), R(5)), Pt(R(15), R(5)), Pt(R(5), R(15))>>)
              => sOut[1] = [a |-> R(1), b |-> R(0), c |-> R(0), d |-> R(1),
                            tx |-> R(5), ty |-> R(5)]

C4_Witness ==
    /\ sSolved
    /\ sIn.src = <<Pt(R(0), R(0)), Pt(R(10), R(0)), Pt(R(0), R(10))>>
    /\ sIn.dst = <<Pt(R(5), R(5)), Pt(R(15), R(5)), Pt(R(5), R(15))>>
    /\ sOut # Undefined

\* C5: with collinear source points (|det| < 1e-10), or a list that does not
\* hold exactly 3 points, the solver returns null and never a transform.
C5_SolveDegenerate ==
    (sSolved /\ (~sThreeAndThree \/ BelowEps(srcDet(sIn.src)) \/ Collinear(sIn.src)))
        => sOut = Undefined

C5_Witness ==
    /\ sSolved /\ sThreeAndThree
    /\ sIn.src[1] # sIn.src[2] /\ sIn.src[2] # sIn.src[3] /\ sIn.src[1] # sIn.src[3]
    /\ Collinear(sIn.src)
    /\ sOut = Undefined

-----------------------------------------------------------------------------
(* The viewport: HeatmapPanel's zoom buttons and HeatmapCanvas's wheel     *)
(* zoom, external-zoom sync effect and store/floor reset effect.  An effect *)
(* runs before the next user event is handled.                              *)

MaxSteps == 3

\* zoom = 1 after construction; 10 after eleven presses of the zoom-in
\* button and 1/2 after four presses of the zoom-out button (pan still 0)
StartZooms == {Q(1, 2), R(1), R(10)}

MousePoints == {Pt(R(0), R(0)), Pt(R(400), R(300)), Pt(R(600), R(150))}

\* a tracks response and a dwell response for the same store and floor
TracksData ==
    [points |-> <<Pt(R(50), R(50)), Pt(R(10), R(90)), Pt(R(90), R(10))>>,
     total_returned |-> 3]

DwellData ==
    [cells |-> << [x |-> R(50), y |-> R(50), avg_dwell_seconds |-> R(30)],
                  [x |-> R(10), y |-> R(90), avg_dwell_seconds |-> R(10)] >>]

\* viewMode === 'tracks' selects tracksData, 'dwell' selects dwellData
Datasets == {Undefined, <<TracksData>>, <<DwellData>>}

\* the canvas has just been mounted: no effect has run yet
ViewInit ==
    /\ panelZoom \in StartZooms
    /\ zoom = panelZoom
    /\ pan = Pt(R(0), R(0))
    /\ lastWheel = <<>>
    /\ steps = 0
    /\ heatmapData \in Datasets
    /\ visibleStats = Undefined
    /\ statsDeps = <<>>
    /\ OutsideViewIdle

SyncPending == panelZoom # zoom

\* the visible-region effect runs when one of its dependencies has changed
StatsPending == statsDeps # <<zoom, pan, heatmapData>>

\* (value).toFixed(1), as the number of tenths; "NaN" for NaN
toFixed1(value) ==
    IF ~IsFinite(value) THEN "NaN"
    ELSE (20 * value[1] + value[2]) \div (2 * value[2])

RECURSIVE sumDwell(_)
sumDwell(cells) ==
    IF cells = <<>> THEN R(0)
    ELSE RAdd(cells[1].avg_dwell_seconds, sumDwell(Tail(cells)))

\* the data-space box of the four canvas corners
visibleBoundsOf(z, p) ==
    LET width == dimensions.width
        height == dimensions.height
        corners == <<Pt(R(0), R(0)), Pt(width, R(0)), Pt(R(0), height), Pt(width, height)>>
        dataCorner(corner) ==
            CHOOSE r \in
                { canvasToData(i.x, i.y, virtualFloorPlan(<<loadedFloorPlan>>, Undefined),
                               width, height) :
                    i \in { inverseTransformPoint(u.x, u.y, filtersAdj, width, height) :
                        u \in { inverseZoomPan(corner.x, corner.y, z, p, width, height) } } } : TRUE
    IN  CHOOSE b \in
            { [minX |-> RMin(RMin(c1.x, c2.x), RMin(c3.x, c4.x)),
               maxX |-> RMax(RMax(c1.x, c2.x), RMax(c3.x, c4.x)),
               minY |-> RMin(RMin(c1.y, c2.y), RMin(c3.y, c4.y)),
               maxY |-> RMax(RMax(c1.y, c2.y), RMax(c3.y, c4.y))] :
                c1 \in {dataCorner(corners[1])}, c2 \in {dataCorner(corners[2])},
                c3 \in {dataCorner(corners[3])}, c4 \in {dataCorner(corners[4])} } : TRUE

inBounds(c, b) ==
    /\ RLe(b.minX, c.x) /\ RLe(c.x, b.maxX)
    /\ RLe(b.minY, c.y) /\ RLe(c.y, b.maxY)

\* the statistic of the visible region, lines 378-428
computedStats(data, z, p) ==
    LET visibleBounds == visibleBoundsOf(z, p)
    IN  IF "points" \in DOMAIN data[1]
        THEN LET points == data[1].points
                 totalPoints == IF data[1].total_returned # 0
                                THEN data[1].total_returned ELSE Len(points)
                 visiblePoints == SelectSeq(points, LAMBDA q : inBounds(q, visibleBounds))
             IN  <<[pointsInView |-> Len(visiblePoints),
                    totalPoints |-> totalPoints,
                    percentage |-> toFixed1(RMul(Q(Len(visiblePoints), totalPoints),
                                                 R(100)))]>>
        ELSE LET cells == data[1].cells
                 visibleCells == SelectSeq(cells, LAMBDA c : inBounds(c, visibleBounds))
                 totalDwell == sumDwell(cells)
                 visibleDwell == sumDwell(visibleCells)
             IN  <<[pointsInView |-> Len(visibleCells),
                    totalPoints |-> Len(cells),
                    percentage |-> IF RLt(R(0), totalDwell)
                                   THEN toFixed1(RMul(RDiv(visibleDwell, totalDwell),
                                                      R(100)))
                                   ELSE 0]>>

\* a faulty variant: the statistic is computed at rest too
visibleStatsReportAtRest(data, z, p) ==
    IF data = Undefined THEN Undefined ELSE computedStats(data, z, p)

\* what the visible-region effect passes to onVisibleStatsChange
visibleStatsReport(data, z, p) ==
    IF data = Undefined THEN Undefined
    ELSE IF z = R(1) /\ p.x = R(0) /\ p.y = R(0) THEN Undefined
    ELSE computedStats(data, z, p)

\* effect [zoom, pan, heatmapData, ...]; onVisibleStatsChange is setVisibleStats
VisibleStatsEffect ==
    /\ StatsPending
    /\ visibleStats' = visibleStatsReport(heatmapData, zoom, pan)
    /\ statsDeps' = <<zoom, pan, heatmapData>>
    /\ UNCHANGED <<heatmapData, outsideStats>>

\* a query settles or the view mode is switched: the heatmapData prop changes
HeatmapDataChanges(data) ==
    /\ ~SyncPending /\ ~StatsPending /\ steps < MaxSteps
    /\ data # heatmapData
    /\ heatmapData' = data
    /\ lastWheel' = <<>>
    /\ steps' = steps + 1
    /\ UNCHANGED <<panelZoom, zoom, pan, visibleStats, statsDeps,
                   pipeVars, solveVars, appVars, mouseVars, scaleVars, rampVars, laterVars>>

\* a faulty variant: the wheel zoom is not clamped
wheelNewZoomUnclamped(z, deltaYPositive) ==
    RMul(z, IF deltaYPositive THEN Q(9, 10) ELSE Q(11, 10))

wheelNewZoom(z, deltaYPositive) ==
    LET zoomFactor == IF deltaYPositive THEN Q(9, 10) ELSE Q(11, 10)
    IN  RMax(Q(1, 2), RMin(R(10), RMul(z, zoomFactor)))

\* handleWheel with Ctrl/Cmd held, the pointer at mouse
handleWheel(mouse, deltaYPositive) ==
    LET newZoom == wheelNewZoom(zoom, deltaYPositive)
        scale == RDiv(newZoom, zoom)
    IN  /\ ~SyncPending /\ ~StatsPending /\ steps < MaxSteps
        /\ pan' = Pt(RSub(mouse.x, RMul(RSub(mouse.x, pan.x), scale)),
                     RSub(mouse.y, RMul(RSub(mouse.y, pan.y), scale)))
        /\ zoom' = newZoom
        /\ panelZoom' = newZoom
        /\ lastWheel' = <<[mouse |-> mouse, zoom |-> zoom, pan |-> pan]>>
        /\ steps' = steps + 1
        /\ UNCHANGED <<outsideView>>

handleZoomIn ==
    /\ ~SyncPending /\ ~StatsPending /\ steps < MaxSteps
    /\ panelZoom' = RMin(R(10), RMul(panelZoom, Q(5, 4)))
    /\ lastWheel' = <<>>
    /\ steps' = steps + 1
    /\ UNCHANGED <<zoom, pan, outsideView>>

handleZoomOut ==
    /\ ~SyncPending /\ ~StatsPending /\ steps < MaxSteps
    /\ panelZoom' = RMax(Q(1, 2), RDiv(panelZoom, Q(5, 4)))
    /\ lastWheel' = <<>>
    /\ steps' = steps + 1
    /\ UNCHANGED <<zoom, pan, outsideView>>

\* the reset button is rendered only while zoom !== 1
handleZoomReset ==
    /\ ~SyncPending /\ ~StatsPending /\ steps < MaxSteps
    /\ RNe(panelZoom, R(1))
    /\ panelZoom' = R(1)
    /\ lastWheel' = <<>>
    /\ steps' = steps + 1
    /\ UNCHANGED <<zoom, pan, outsideView>>

\* effect [externalZoom]
SyncExternalZoom ==
    /\ RNe(panelZoom, zoom)
    /\ zoom' = panelZoom
    /\ pan' = IF panelZoom = R(1) THEN Pt(R(0), R(0)) ELSE pan
    /\ lastWheel' = <<>>
    /\ UNCHANGED <<panelZoom, steps, outsideView>>

\* effect [storeId, floor], after a change of store or floor
ResetOnStoreOrFloorChange ==
    /\ ~SyncPending /\ ~StatsPending /\ steps < MaxSteps
    /\ zoom' = R(1)
    /\ pan' = Pt(R(0), R(0))
    /\ panelZoom' = R(1)
    /\ lastWheel' = <<>>
    /\ steps' = steps + 1
    /\ UNCHANGED <<outsideView>>

ViewNext ==
    \/ \E m \in MousePoints, down \in BOOLEAN : handleWheel(m, down)
    \/ handleZoomIn
    \/ handleZoomOut
    \/ handleZoomReset
    \/ SyncExternalZoom
    \/ ResetOnStoreOrFloorChange
    \/ VisibleStatsEffect
    \/ \E data \in Datasets : HeatmapDataChanges(data)

SpecView == ViewInit /\ [][ViewNext]_vars

\* C3 (as stated): a wheel zoom step at pointer Q leaves inverseZoomPan(Q)
\* unchanged: the pre-zoom canvas point under the pointer is the same before
\* and after the step.
C3_ZoomAnchored ==
    lastWheel # <<>> =>
        LET w == lastWheel[1]
        IN  inverseZoomPan(w.mouse.x, w.mouse.y, zoom, pan, dimensions.width, dimensions.height)
            = inverseZoomPan(w.mouse.x, w.mouse.y, w.zoom, w.pan, dimensions.width, dimensions.height)

InZoomRange(z) == RLe(Q(1, 2), z) /\ RLe(z, R(10))

\* C7: after any sequence of wheel zooms, zoom button presses, zoom resets
\* and store/floor changes, the zoom of HeatmapPanel and the zoom of
\* HeatmapCanvas are within [0.5, 10].
C7_ZoomBounded == InZoomRange(panelZoom) /\ InZoomRange(zoom)

\* a wheel step was cut off at either end of the range
C7_Witness ==
    /\ lastWheel # <<>>
    /\ \/ zoom = R(10) /\ RLt(R(10), RMul(lastWheel[1].zoom, Q(11, 10)))
       \/ zoom = Q(1, 2) /\ RLt(RMul(lastWheel[1].zoom, Q(9, 10)), Q(1, 2))

-----------------------------------------------------------------------------
(* App: the calibration session and the alignment it installs.  A floor    *)
(* plan is loaded (the sidebar shows the alignment and calibration controls *)
(* only then).  The compute-calibration effect runs before the next user    *)
(* event is handled.                                                        *)

ClickPoints == {Pt(R(0), R(0)), Pt(R(10), R(0)), Pt(R(0), R(10)), Pt(R(5), R(5))}

SidebarOffsets == {R(0), R(10)}

SidebarScales == {R(1), R(2)}

AppInit == AppIdle /\ OutsideAppIdle

EffectPending ==
    /\ calibration.isCalibrating
    /\ Len(calibration.heatmapPoints) = 3
    /\ Len(calibration.floorplanPoints) = 3

handleToggleDrawZone ==
    /\ ~EffectPending
    /\ isDrawingZone' = ~isDrawingZone
    /\ lastEffect' = <<>>
    /\ UNCHANGED <<filtersAdj, calibration, lastToast, outsideApp>>

handleStartCalibration ==
    /\ ~EffectPending
    /\ ~calibration.isCalibrating
    /\ filtersAdj' = [offsetX |-> R(0), offsetY |-> R(0), rotation |-> 0, scale |-> R(1),
                      scaleX |-> R(1), scaleY |-> R(1), lockAspectRatio |-> TRUE,
                      useAffine |-> FALSE, affine |-> Undefined]
    /\ calibration' = [isCalibrating |-> TRUE, step |-> "heatmap",
                       heatmapPoints |-> <<>>, floorplanPoints |-> <<>>]
    /\ isDrawingZone' = FALSE
    /\ lastToast' = "starting"
    /\ lastEffect' = <<>>
    /\ UNCHANGED <<outsideApp>>

handleCancelCalibration ==
    /\ ~EffectPending
    /\ calibration.isCalibrating
    /\ calibration' = [isCalibrating |-> FALSE, step |-> "heatmap",
                       heatmapPoints |-> <<>>, floorplanPoints |-> <<>>]
    /\ lastToast' = "cancelled"
    /\ lastEffect' = <<>>
    /\ UNCHANGED <<filtersAdj, isDrawingZone, outsideApp>>

\* a faulty variant: the step changes one click too late
handleCalibrationPointClickLate(prev, point) ==
    IF prev.step = "heatmap"
    THEN LET newPoints == Append(prev.heatmapPoints, point)
         IN  IF Len(newPoints) > 3
             THEN [prev EXCEPT !.heatmapPoints = newPoints, !.step = "floorplan"]
             ELSE [prev EXCEPT !.heatmapPoints = newPoints]
    ELSE [prev EXCEPT !.floorplanPoints = Append(prev.floorplanPoints, point)]

\* the updater passed to setCalibration
handleCalibrationPointClick(prev, point) ==
    IF prev.step = "heatmap"
    THEN LET newPoints == Append(prev.heatmapPoints, point)
         IN  IF Len(newPoints) >= 3
             THEN [prev EXCEPT !.heatmapPoints = newPoints, !.step = "floorplan"]
             ELSE [prev EXCEPT !.heatmapPoints = newPoints]
    ELSE LET newPoints == Append(prev.floorplanPoints, point)
         IN  IF Len(newPoints) >= 3
             THEN [prev EXCEPT !.floorplanPoints = newPoints]
             ELSE [prev EXCEPT !.floorplanPoints = newPoints]

pointToast(prev) ==
    IF prev.step = "heatmap"
    THEN (IF Len(prev.heatmapPoints) + 1 >= 3 THEN "now-floorplan" ELSE "heatmap-point")
    ELSE (IF Len(prev.floorplanPoints) + 1 >= 3 THEN lastToast ELSE "floorplan-point")

\* handleMouseDown while calibration.isCalibrating
handleMouseDownCalibrating(point) ==
    /\ ~EffectPending
    /\ calibration.isCalibrating
    /\ calibration' = handleCalibrationPointClick(calibration, point)
    /\ lastToast' = pointToast(calibration)
    /\ lastEffect' = <<>>
    /\ UNCHANGED <<filtersAdj, isDrawingZone, outsideApp>>

\* a faulty variant: the solved matrix is added to the alignment as it is
appliedAdjustmentKeepsSimple(prevAdj, affine) ==
    [prevAdj EXCEPT !.useAffine = TRUE, !.affine = affine]

\* the alignment installed when the solver succeeds
appliedAdjustment(prevAdj, affine) ==
    [prevAdj EXCEPT !.useAffine = TRUE, !.affine = affine,
                    !.offsetX = R(0), !.offsetY = R(0), !.rotation = 0,
                    !.scale = R(1), !.scaleX = R(1), !.scaleY = R(1),
                    !.lockAspectRatio = TRUE]

\* a faulty variant: a failed solve keeps the session open
failedCalibrationKeepsSession ==
    [isCalibrating |-> TRUE, step |-> "heatmap",
     heatmapPoints |-> <<>>, floorplanPoints |-> <<>>]

\* the session set when the solver fails
failedCalibration ==
    [isCalibrating |-> FALSE, step |-> "heatmap",
     heatmapPoints |-> <<>>, floorplanPoints |-> <<>>]

\* effect [calibration, filters.floorPlanAdjustment, handleFilterChange]
ComputeCalibrationEffect ==
    /\ calibration.isCalibrating
    /\ Len(calibration.heatmapPoints) = 3
    /\ Len(calibration.floorplanPoints) = 3
    /\ LET affine == solveAffineTransform(calibration.heatmapPoints,
                                          calibration.floorplanPoints)
       IN  IF affine = Undefined
           THEN /\ lastToast' = "calibration-failed"
                /\ calibration' = failedCalibration
                /\ UNCHANGED filtersAdj
           ELSE /\ filtersAdj' = appliedAdjustment(filtersAdj, affine)
                /\ lastToast' = "calibration-applied"
                /\ calibration' = [isCalibrating |-> FALSE, step |-> "heatmap",
                                   heatmapPoints |-> <<>>, floorplanPoints |-> <<>>]
    /\ lastEffect' = <<[calibration |-> calibration, adjustment |-> filtersAdj]>>
    /\ UNCHANGED <<isDrawingZone, outsideApp>>

\* Sidebar: the left/right offset control
SidebarSetOffsetX(v) ==
    /\ ~EffectPending
    /\ filtersAdj.offsetX # v
    /\ filtersAdj' = [filtersAdj EXCEPT !.offsetX = v]
    /\ lastEffect' = <<>>
    /\ UNCHANGED <<calibration, isDrawingZone, lastToast, outsideApp>>

\* Sidebar: the Scale X control
SidebarSetScaleX(newScale) ==
    /\ ~EffectPending
    /\ filtersAdj.scaleX # newScale
    /\ filtersAdj' = [filtersAdj EXCEPT
                         !.scaleX = newScale,
                         !.scaleY = IF filtersAdj.lockAspectRatio THEN newScale
                                    ELSE filtersAdj.scaleY,
                         !.scale = newScale]
    /\ lastEffect' = <<>>
    /\ UNCHANGED <<calibration, isDrawingZone, lastToast, outsideApp>>

AppNext ==
    \/ handleToggleDrawZone
    \/ handleStartCalibration
    \/ handleCancelCalibration
    \/ \E p \in ClickPoints : handleMouseDownCalibrating(p)
    \/ ComputeCalibrationEffect
    \/ \E v \in SidebarOffsets : SidebarSetOffsetX(v)
    \/ \E v \in SidebarScales : SidebarSetScaleX(v)

SpecApp == AppInit /\ [][AppNext]_vars

effectRan == lastEffect # <<>>

effectSolved ==
    solveAffineTransform(lastEffect[1].calibration.heatmapPoints,
                         lastEffect[1].calibration.floorplanPoints)

\* C8: when the session holds 3 + 3 points and the solver succeeds, the
\* alignment becomes useAffine = TRUE with the solved matrix and identity
\* simple-mode parameters, and the session is discarded.
C8_CalibrationCompletes ==
    (effectRan /\ effectSolved # Undefined) =>
        /\ filtersAdj.useAffine = TRUE
        /\ filtersAdj.affine = effectSolved
        /\ filtersAdj.offsetX = R(0) /\ filtersAdj.offsetY = R(0)
        /\ filtersAdj.rotation = 0
        /\ filtersAdj.scale = R(1) /\ filtersAdj.scaleX = R(1) /\ filtersAdj.scaleY = R(1)
        /\ calibration.isCalibrating = FALSE
        /\ calibration.heatmapPoints = <<>>
        /\ calibration.floorplanPoints = <<>>

\* a solve succeeded while the sidebar had moved the alignment off identity
C8_Witness ==
    /\ effectRan /\ effectSolved # Undefined
    /\ lastEffect[1].adjustment.offsetX # R(0)
    /\ lastEffect[1].adjustment.scaleX # R(1)
    /\ filtersAdj.useAffine

\* C9: when both triples are complete and the solver fails, the session is
\* discarded and the alignment is left as it was, with no affine installed.
C9_CalibrationFails ==
    (effectRan /\ effectSolved = Undefined) =>
        /\ calibration = [isCalibrating |-> FALSE, step |-> "heatmap",
                          heatmapPoints |-> <<>>, floorplanPoints |-> <<>>]
        /\ filtersAdj = lastEffect[1].adjustment
        /\ filtersAdj.useAffine = FALSE

C9_Witness ==
    /\ effectRan /\ effectSolved = Undefined
    /\ lastToast = "calibration-failed"
    /\ lastEffect[1].adjustment.offsetX # R(0)

\* C10: in every reachable state the session holds at most 3 heatmap points
\* and at most 3 floor-plan points.
C10_SessionBounded ==
    /\ Len(calibration.heatmapPoints) <= 3
    /\ Len(calibration.floorplanPoints) <= 3

C10_Witness ==
    /\ calibration.isCalibrating
    /\ Len(calibration.heatmapPoints) = 3
    /\ Len(calibration.floorplanPoints) = 3

-----------------------------------------------------------------------------
(* The reference frame built when no floor plan is loaded *)

pNoFloorPlan == pIn.frame[1] = Undefined

frameIsUsable(f) ==
    /\ IsFinite(f.data_min_x) /\ IsFinite(f.data_max_x)
    /\ IsFinite(f.data_min_y) /\ IsFinite(f.data_max_y)
    /\ f.data_min_x # f.data_max_x
    /\ f.data_min_y # f.data_max_y

\* C11 (as stated): with no floor plan, for every data-bounds value (absent,
\* empty/infinite, a rectangle, a rectangle of zero width) the reference
\* frame has finite bounds with non-zero extents, and dataToCanvas of a
\* finite data point is finite.
C11_FrameNeverDegenerate ==
    pNoFloorPlan =>
        /\ frameIsUsable(pFrame)
        /\ Len(pTrail) >= 2 => (IsFinite(pTrail[2].x) /\ IsFinite(pTrail[2].y))

-----------------------------------------------------------------------------
(* Alignment modes *)

\* the alignment of the run with the simple-mode parameters of o
withSimpleOf(adjustment, o) ==
    [adjustment EXCEPT !.offsetX = o.offsetX, !.offsetY = o.offsetY,
                       !.rotation = o.rotation, !.scale = o.scale,
                       !.scaleX = o.scaleX, !.scaleY = o.scaleY,
                       !.lockAspectRatio = o.lockAspectRatio]

\* the alignment of the run with optional matrix m stored in it
withMatrix(adjustment, m) == [adjustment EXCEPT !.affine = m]

StoredMatrices == {Undefined} \cup {<<m>> : m \in AffineMatrices}

\* C12: when useAffine is true and a matrix is present, transformPoint and
\* inverseTransformPoint give the same result for every value of offset,
\* scale and rotation; otherwise they give the same result whatever matrix
\* is stored.
C12_OneModeActive ==
    /\ (pPath = "full" /\ Len(pTrail) = 3 /\ usesAffine(pIn.adjustment)) =>
          \A o \in SimpleAdjustments :
              transformPoint(pTrail[2].x, pTrail[2].y, withSimpleOf(pIn.adjustment, o),
                             dimensions.width, dimensions.height) = pTrail[3]
    /\ (pPath = "full" /\ Len(pTrail) = 6 /\ usesAffine(pIn.adjustment)) =>
          \A o \in SimpleAdjustments :
              inverseTransformPoint(pTrail[5].x, pTrail[5].y, withSimpleOf(pIn.adjustment, o),
                                    dimensions.width, dimensions.height) = pTrail[6]
    /\ (pPath = "full" /\ Len(pTrail) = 3 /\ ~pIn.adjustment.useAffine) =>
          \A m \in StoredMatrices :
              transformPoint(pTrail[2].x, pTrail[2].y, withMatrix(pIn.adjustment, m),
                             dimensions.width, dimensions.height) = pTrail[3]
    /\ (pPath = "full" /\ Len(pTrail) = 6 /\ ~pIn.adjustment.useAffine) =>
          \A m \in StoredMatrices :
              inverseTransformPoint(pTrail[5].x, pTrail[5].y, withMatrix(pIn.adjustment, m),
                                    dimensions.width, dimensions.height) = pTrail[6]

\* a run in affine mode whose result differs from what simple mode would give
C12_Witness ==
    /\ pPath = "full" /\ Len(pTrail) = 6
    /\ usesAffine(pIn.adjustment)
    /\ pTrail[3] # transformSimple(pTrail[2].x, pTrail[2].y, pIn.adjustment,
                                   dimensions.width, dimensions.height)
    /\ pTrail[6] # inverseSimple(pTrail[5].x, pTrail[5].y, pIn.adjustment,
                                 dimensions.width, dimensions.height)

-----------------------------------------------------------------------------
(* Simple mode with a scale of 0 *)

\* inverseTransformPoint, simple branch, up to the reverse rotation: the
\* point with the offset and the centre subtracted and the rotation undone
unOffsetUnRotated(x, y, adjustment, canvasWidth, canvasHeight) ==
    LET offsetX == RMul(RDiv(adjustment.offsetX, R(100)), canvasWidth)
        offsetY == RMul(RDiv(adjustment.offsetY, R(100)), canvasHeight)
        px == RSub(RSub(x, offsetX), RDiv(canvasWidth, R(2)))
        py == RSub(RSub(y, offsetY), RDiv(canvasHeight, R(2)))
        cos == CosDeg(-adjustment.rotation)
        sin == SinDeg(-adjustment.rotation)
    IN  Pt(RSub(RMul(px, cos), RMul(py, sin)), RAdd(RMul(px, sin), RMul(py, cos)))

pInverseInputFinite ==
    /\ pPath = "full" /\ Len(pTrail) = 6
    /\ IsFinite(pTrail[5].x) /\ IsFinite(pTrail[5].y)

pUnscaled ==
    unOffsetUnRotated(pTrail[5].x, pTrail[5].y, pIn.adjustment,
                      dimensions.width, dimensions.height)

\* C13: in simple mode, inverseTransformPoint with scaleX = 0 (scaleY = 0)
\* divides nothing by zero: for a finite input the result is finite, and the
\* x (y) of the result is the un-offset, un-rotated coordinate re-centred.
C13_InverseScaleGuard ==
    (pInverseInputFinite /\ pSimpleMode) =>
        /\ IsFinite(pTrail[6].x) /\ IsFinite(pTrail[6].y)
        /\ pIn.adjustment.scaleX = R(0) =>
              pTrail[6].x = RAdd(pUnscaled.x, RDiv(dimensions.width, R(2)))
        /\ pIn.adjustment.scaleY = R(0) =>
              pTrail[6].y = RAdd(pUnscaled.y, RDiv(dimensions.height, R(2)))

\* both scales are 0, the alignment is rotated and offset
C13_Witness ==
    /\ pInverseInputFinite /\ pSimpleMode
    /\ pIn.adjustment.scaleX = R(0) /\ pIn.adjustment.scaleY = R(0)
    /\ pIn.adjustment.rotation = 90 /\ pIn.adjustment.offsetX # R(0)
    /\ pTrail[6] # pTrail[5]

-----------------------------------------------------------------------------
(* HeatmapCanvas: mouse gestures (zone selection, panning, zone drawing).  *)
(* A floor plan with the default bounds is loaded, the view mode is        *)
(* 'tracks' (no hovered cell) and no calibration session is open; clicks   *)
(* of a calibration session are handleMouseDownCalibrating.  The handlers  *)
(* are bound to the canvas element only: a button released outside the    *)
(* canvas reaches no handler, so a mouse-down need not be followed by a    *)
(* mouse-up.                                                               *)

MaxMouseEvents == 5

PAN_THRESHOLD == 8

\* two overlapping zones; on the unaligned canvas they cover
\* [96,112] x [96,108] and [104,136] x [96,144]
StoredZones ==
    << [id |-> 1, x1 |-> R(12), y1 |-> R(82), x2 |-> R(14), y2 |-> R(84)],
       [id |-> 2, x1 |-> R(17), y1 |-> R(84), x2 |-> R(13), y2 |-> R(76)] >>

MouseAdjustments ==
    { IdleAdjustment, [IdleAdjustment EXCEPT !.rotation = 180] }

\* where the button goes down: in both zones, in the second zone only, on
\* empty canvas, and in the first zone when the alignment is rotated by 180
PressPoints ==
    { Pt(R(106), R(106)), Pt(R(130), R(130)), Pt(R(300), R(300)), Pt(R(700), R(500)) }

\* where the pointer moves to: 7.2 px, 8 px and 30.6 px from the press on
\* empty canvas (rectangles of 4 x 6, 8 x 0 and 30 x 6 from it, and of more
\* than 20 x 20 from the other presses)
MovePoints == { Pt(R(304), R(306)), Pt(R(308), R(300)), Pt(R(330), R(306)) }

MouseInit ==
    /\ filtersAdj \in MouseAdjustments
    /\ calibration = [isCalibrating |-> FALSE, step |-> "heatmap",
                      heatmapPoints |-> <<>>, floorplanPoints |-> <<>>]
    /\ isDrawingZone = FALSE
    /\ lastToast = "none"
    /\ lastEffect = <<>>
    /\ ViewIdle
    /\ selectedZone = 0
    /\ isPanning = FALSE
    /\ panStarted = FALSE
    /\ panStartRef = [x |-> R(0), y |-> R(0), panX |-> R(0), panY |-> R(0)]
    /\ drawing = Undefined
    /\ createZoneCalls = <<>>
    /\ gesture = <<>>
    /\ lastUp = <<>>
    /\ zones = StoredZones
    /\ inFlight = <<>>
    /\ mouseEvents = 0
    /\ OutsideMouseIdle

\* the screen position of a data point under pan p: dataToCanvas,
\* transformPoint, applyZoomPan (each stage is evaluated once and its value
\* handed to the next)
toScreen(dataX, dataY, p) ==
    CHOOSE r \in
        { applyZoomPan(t.x, t.y, zoom, p, dimensions.width, dimensions.height) :
            t \in { transformPoint(c.x, c.y, filtersAdj, dimensions.width, dimensions.height) :
                c \in { dataToCanvas(dataX, dataY,
                                     virtualFloorPlan(<<loadedFloorPlan>>, Undefined),
                                     dimensions.width, dimensions.height) } } } : TRUE

\* a faulty variant: the alignment is not undone
toDataUnaligned(x, y) ==
    CHOOSE r \in
        { canvasToData(u.x, u.y, virtualFloorPlan(<<loadedFloorPlan>>, Undefined),
                       dimensions.width, dimensions.height) :
            u \in { inverseZoomPan(x, y, zoom, pan,
                                   dimensions.width, dimensions.height) } } : TRUE

\* the data position of a screen point: inverseZoomPan, inverseTransformPoint, canvasToData
toData(x, y) ==
    CHOOSE r \in
        { canvasToData(i.x, i.y, virtualFloorPlan(<<loadedFloorPlan>>, Undefined),
                       dimensions.width, dimensions.height) :
            i \in { inverseTransformPoint(u.x, u.y, filtersAdj,
                                          dimensions.width, dimensions.height) :
                u \in { inverseZoomPan(x, y, zoom, pan,
                                       dimensions.width, dimensions.height) } } } : TRUE

\* the test of one zone in the loop of handleMouseDown
zoneContains(zone, x, y, p) ==
    \E topLeft \in {toScreen(RMin(zone.x1, zone.x2), RMax(zone.y1, zone.y2), p)},
       bottomRight \in {toScreen(RMax(zone.x1, zone.x2), RMin(zone.y1, zone.y2), p)} :
        LET minX == RMin(topLeft.x, bottomRight.x)
            maxX == RMax(topLeft.x, bottomRight.x)
            minY == RMin(topLeft.y, bottomRight.y)
            maxY == RMax(topLeft.y, bottomRight.y)
        IN  RLe(minX, x) /\ RLe(x, maxX) /\ RLe(minY, y) /\ RLe(y, maxY)

\* a faulty variant: the loop keeps the last zone that contains the point
RECURSIVE hitZoneLastFrom(_, _, _)
hitZoneLastFrom(i, x, y) ==
    IF i > Len(zones) THEN 0
    ELSE LET later == hitZoneLastFrom(i + 1, x, y)
         IN  IF later # 0 THEN later
             ELSE IF zoneContains(zones[i], x, y, pan) THEN i ELSE 0

\* for (const zone of zones) ... return at the first match; 0 when the loop ends
RECURSIVE hitZoneFrom(_, _, _)
hitZoneFrom(i, x, y) ==
    IF i > Len(zones) THEN 0
    ELSE IF zoneContains(zones[i], x, y, pan) THEN i
    ELSE hitZoneFrom(i + 1, x, y)

\* panStarted, or distance >= PAN_THRESHOLD with
\* distance = Math.sqrt(dx * dx + dy * dy)
panEngages(dx, dy, started) ==
    \/ started
    \/ ~RLt(RAdd(RMul(dx, dx), RMul(dy, dy)), R(PAN_THRESHOLD * PAN_THRESHOLD))

\* width < 20 || height < 20
tooSmall(width, height) == RLt(width, R(20)) \/ RLt(height, R(20))

handleMouseDown(x, y) ==
    /\ mouseEvents < MaxMouseEvents
    /\ ~calibration.isCalibrating
    /\ mouseEvents' = mouseEvents + 1
    /\ gesture' = <<[x |-> x, y |-> y, pan |-> pan, selectedZone |-> selectedZone,
                     isDrawingZone |-> isDrawingZone, isPanning |-> isPanning,
                     zoneCount |-> Len(zones), reached |-> FALSE]>>
    /\ lastUp' = <<>>
    /\ IF ~isDrawingZone
       THEN LET hit == hitZoneFrom(1, x, y)
            IN  IF hit # 0
                THEN /\ selectedZone' = IF selectedZone = zones[hit].id THEN 0
                                        ELSE zones[hit].id
                     /\ UNCHANGED <<isPanning, panStartRef, drawing>>
                ELSE /\ isPanning' = TRUE
                     /\ panStartRef' = [x |-> x, y |-> y, panX |-> pan.x, panY |-> pan.y]
                     /\ UNCHANGED <<selectedZone, drawing>>
       ELSE /\ drawing' = <<[startX |-> x, startY |-> y, currentX |-> x, currentY |-> y]>>
            /\ UNCHANGED <<selectedZone, isPanning, panStartRef>>
    /\ UNCHANGED <<panStarted, createZoneCalls, zones, inFlight, viewVars, appVars, outsideMouse>>

\* whether the pointer at (x, y) is 8 px or more from the last press
farFromPress(x, y) ==
    /\ gesture # <<>>
    /\ LET dx == RSub(x, gesture[1].x)
           dy == RSub(y, gesture[1].y)
       IN  RLe(R(64), RAdd(RMul(dx, dx), RMul(dy, dy)))

handleMouseMove(x, y) ==
    /\ mouseEvents < MaxMouseEvents
    /\ mouseEvents' = mouseEvents + 1
    /\ gesture' = IF gesture = <<>> THEN gesture
                  ELSE <<[gesture[1] EXCEPT !.reached = @ \/ farFromPress(x, y)]>>
    /\ lastUp' = <<>>
    /\ IF isPanning
       THEN LET dx == RSub(x, panStartRef.x)
                dy == RSub(y, panStartRef.y)
            IN  IF panEngages(dx, dy, panStarted)
                THEN /\ panStarted' = TRUE
                     /\ pan' = Pt(RAdd(panStartRef.panX, dx), RAdd(panStartRef.panY, dy))
                     /\ UNCHANGED drawing
                ELSE UNCHANGED <<panStarted, pan, drawing>>
       ELSE /\ drawing' = IF drawing # Undefined
                          THEN <<[drawing[1] EXCEPT !.currentX = x, !.currentY = y]>>
                          ELSE drawing
            /\ UNCHANGED <<panStarted, pan>>
    /\ UNCHANGED <<selectedZone, isPanning, panStartRef, createZoneCalls, zones, inFlight,
                   panelZoom, zoom, lastWheel, steps, appVars, outsideMouse>>

\* the body of the createZone request for the rectangle of drawing
zoneBody(d) ==
    CHOOSE body \in
        { [x1 |-> topLeft.x, y1 |-> topLeft.y, x2 |-> bottomRight.x, y2 |-> bottomRight.y] :
            topLeft \in {toData(RMin(d.startX, d.currentX), RMin(d.startY, d.currentY))},
            bottomRight \in {toData(RMax(d.startX, d.currentX), RMax(d.startY, d.currentY))} } :
        TRUE

\* handleMouseUp up to the await; named is whether prompt() returned a name
handleMouseUp(named) ==
    /\ mouseEvents < MaxMouseEvents
    /\ mouseEvents' = mouseEvents + 1
    /\ lastUp' = IF drawing # Undefined /\ isDrawingZone
                 THEN <<[width |-> RAbs(RSub(drawing[1].currentX, drawing[1].startX)),
                         height |-> RAbs(RSub(drawing[1].currentY, drawing[1].startY)),
                         calls |-> Len(createZoneCalls)]>>
                 ELSE <<>>
    /\ IF isPanning
       THEN /\ isPanning' = FALSE
            /\ panStarted' = FALSE
            /\ UNCHANGED <<drawing, createZoneCalls, inFlight>>
       ELSE IF drawing = Undefined \/ ~isDrawingZone
       THEN UNCHANGED <<isPanning, panStarted, drawing, createZoneCalls, inFlight>>
       ELSE LET width == RAbs(RSub(drawing[1].currentX, drawing[1].startX))
                height == RAbs(RSub(drawing[1].currentY, drawing[1].startY))
            IN  /\ IF tooSmall(width, height) \/ ~named
                   THEN /\ drawing' = Undefined
                        /\ UNCHANGED <<createZoneCalls, inFlight>>
                   ELSE /\ createZoneCalls' = Append(createZoneCalls, zoneBody(drawing[1]))
                        /\ inFlight' = Append(inFlight, zoneBody(drawing[1]))
                        /\ UNCHANGED drawing
                /\ UNCHANGED <<isPanning, panStarted>>
    /\ UNCHANGED <<selectedZone, panStartRef, gesture, zones, viewVars, appVars, outsideMouse>>

\* handleMouseUp after the await: the request succeeded (onZoneCreated) or failed
CreateZoneSettles(ok) ==
    /\ inFlight # <<>>
    /\ inFlight' = Tail(inFlight)
    /\ IF ok
       THEN /\ zones' = Append(zones, [id |-> Len(zones) + 1,
                                       x1 |-> Head(inFlight).x1, y1 |-> Head(inFlight).y1,
                                       x2 |-> Head(inFlight).x2, y2 |-> Head(inFlight).y2])
            /\ isDrawingZone' = FALSE
            /\ lastToast' = "zone-created"
       ELSE /\ lastToast' = "zone-failed"
            /\ UNCHANGED <<zones, isDrawingZone>>
    /\ drawing' = Undefined
    /\ lastUp' = <<>>
    /\ UNCHANGED <<selectedZone, isPanning, panStarted, panStartRef, createZoneCalls, gesture,
                   mouseEvents, filtersAdj, calibration, lastEffect, viewVars, outsideMouse>>

\* onMouseLeave
handleMouseLeave ==
    /\ drawing # Undefined
    /\ drawing' = Undefined
    /\ lastUp' = <<>>
    /\ UNCHANGED <<selectedZone, isPanning, panStarted, panStartRef, createZoneCalls, gesture,
                   zones, inFlight, mouseEvents, viewVars, appVars, outsideMouse>>

\* Sidebar: the draw-zone button (onToggleDrawZone)
DrawZoneButton ==
    /\ mouseEvents < MaxMouseEvents
    /\ mouseEvents' = mouseEvents + 1
    /\ isDrawingZone' = ~isDrawingZone
    /\ UNCHANGED <<selectedZone, isPanning, panStarted, panStartRef, drawing, createZoneCalls,
                   gesture, lastUp, zones, inFlight, filtersAdj, calibration, lastToast,
                   lastEffect, viewVars, outsideMouse>>

MouseNext ==
    \/ \E p \in PressPoints : handleMouseDown(p.x, p.y)
    \/ \E p \in MovePoints : handleMouseMove(p.x, p.y)
    \/ \E named \in BOOLEAN : handleMouseUp(named)
    \/ \E ok \in BOOLEAN : CreateZoneSettles(ok)
    \/ handleMouseLeave
    \/ DrawZoneButton

SpecMouse == MouseInit /\ [][MouseNext]_vars

-----------------------------------------------------------------------------
(* Claims about the mouse gestures *)

\* the zones, among those present at the last press, whose box contained it
zonesAtPress ==
    {i \in 1..gesture[1].zoneCount :
        zoneContains(zones[i], gesture[1].x, gesture[1].y, gesture[1].pan)}

pressedOutsideModes == gesture # <<>> /\ ~gesture[1].isDrawingZone

pressedOnEmptyCanvas == pressedOutsideModes /\ zonesAtPress = {}

pressedOnZone == pressedOutsideModes /\ zonesAtPress # {}

\* C14 (as stated): after a mouse-down on empty canvas outside drawing and
\* calibration modes, pan is what it was at the press for as long as the
\* pointer has stayed less than 8 px from the press point, also after the
\* release; a press on a zone starts no pan.
C14_PanThreshold ==
    /\ (pressedOnEmptyCanvas /\ ~gesture[1].reached) => pan = gesture[1].pan
    /\ (pressedOnZone /\ ~gesture[1].isPanning) => (~isPanning /\ pan = gesture[1].pan)

\* C16: the last mouse-down outside drawing and calibration modes toggled
\* the first zone, in list order, whose box contained the point, and left
\* the selection alone when no zone contained it.
C16_FirstZoneToggles ==
    pressedOutsideModes =>
        IF zonesAtPress = {}
        THEN selectedZone = gesture[1].selectedZone
        ELSE LET first == CHOOSE i \in zonesAtPress : \A j \in zonesAtPress : i <= j
             IN  selectedZone = IF gesture[1].selectedZone = zones[first].id THEN 0
                                ELSE zones[first].id

\* a press inside both zones: the first is selected, the second is not
C16_Witness ==
    /\ pressedOutsideModes
    /\ Cardinality(zonesAtPress) = 2
    /\ selectedZone = 1

\* C17 (as stated): a mouse-up in drawing mode with a rectangle less than
\* 20 px wide or less than 20 px high issues no createZone request and
\* clears the drawing state.
C17_MinimumZoneSize ==
    (lastUp # <<>> /\ (RLt(lastUp[1].width, R(20)) \/ RLt(lastUp[1].height, R(20)))) =>
        /\ Len(createZoneCalls) = lastUp[1].calls
        /\ drawing = Undefined

-----------------------------------------------------------------------------
(* The color scale: the draw effect computes the display range, defers the  *)
(* legend update and the range report with setTimeout(..., 0), and App's    *)
(* range handlers store the report.  The draw effect runs again whenever    *)
(* one of its dependencies (data, view mode, scale settings, legend values, *)
(* alignment, viewport) has changed.  Timers run in the order they were set.*)

MaxChanges == 1

intensityToTracks == 10

\* peaks of the blurred tracks layer (a byte); Undefined: no points to draw
PeakInputs == {Undefined, R(0), R(40)}

\* least and greatest avg_dwell_seconds of the cells; Undefined: no cells
DwellInputs == {Undefined, [min |-> Q(25, 2), max |-> R(40)]}

\* parseInt(e.target.value) of the legend inputs
ParsedInputs == {NaN, R(50)}

ScaleInit ==
    /\ viewMode = "tracks"
    /\ finalMaxIntensity \in PeakInputs
    /\ dwellValues \in DwellInputs
    /\ tracksScaleSettings = [auto |-> TRUE, min |-> R(0), max |-> R(1000)]
    /\ dwellScaleSettings = [auto |-> TRUE, min |-> R(30), max |-> R(3600)]
    /\ legendValues = Undefined
    /\ timers = <<>>
    /\ drawPending = TRUE
    /\ lastDraw = <<>>
    /\ lastFired = <<>>
    /\ changes = 0
    /\ OutsideScaleIdle

\* the scaleSettings prop of the canvas
scaleSettings == IF viewMode = "tracks" THEN tracksScaleSettings ELSE dwellScaleSettings

\* a faulty variant: the divisor is the bare difference
normalisationRangeBare(pixelMin, pixelMax) ==
    CHOOSE range \in { difference : difference \in {RSub(pixelMax, pixelMin)} } : TRUE

\* const range = Math.max(1, pixelMax - pixelMin)
normalisationRange(pixelMin, pixelMax) ==
    CHOOSE range \in
        { RMax(R(1), difference) : difference \in {RSub(pixelMax, pixelMin)} } : TRUE

\* the display range of a tracks draw, lines 578-590; each const is bound
\* to its value before the next one is computed
tracksRange(settings, peak) ==
    CHOOSE d \in UNION { UNION {
        { [settings |-> settings, peak |-> peak, dataMax |-> dataMax,
           scaleMin |-> scaleMin, scaleMax |-> scaleMax,
           pixelMin |-> pixelMin, pixelMax |-> pixelMax,
           range |-> normalisationRange(pixelMin, pixelMax)] :
            pixelMin \in {RDiv(scaleMin, R(intensityToTracks))},
            pixelMax \in {RDiv(scaleMax, R(intensityToTracks))} } :
        scaleMin \in {IF settings.auto THEN R(0) ELSE settings.min},
        scaleMax \in {IF settings.auto THEN dataMax ELSE settings.max} } :
        dataMax \in {MathRound(RMul(peak, R(intensityToTracks)))} } : TRUE

normalizedIntensity(rawIntensity, pixelMin, range) ==
    RMax(R(0), RMin(R(1), RDiv(RSub(rawIntensity, pixelMin), range)))

\* the display range of a dwell draw, lines 636-642
dwellRange(settings, values) ==
    [minValue |-> IF settings.auto THEN values.min ELSE settings.min,
     maxValue |-> IF settings.auto THEN values.max ELSE settings.max]

legendDiffers(min, max) ==
    \/ legendValues = Undefined
    \/ RNe(legendValues[1].min, min)
    \/ RNe(legendValues[1].max, max)

\* the timers one draw sets: the legend update, then the range report
deferred(min, max, reportMin, reportMax) ==
    (IF legendDiffers(min, max)
     THEN <<[kind |-> "legend", mode |-> viewMode, min |-> min, max |-> max]>>
     ELSE <<>>)
    \o (IF scaleSettings.auto
        THEN <<[kind |-> "range", mode |-> viewMode, min |-> reportMin, max |-> reportMax]>>
        ELSE <<>>)

hasPoints == viewMode = "tracks" /\ finalMaxIntensity # Undefined

hasCells == viewMode = "dwell" /\ dwellValues # Undefined

\* the timers the draw effect sets, lines 592-598 and 644-650
drawTimers ==
    IF hasPoints
    THEN CHOOSE t \in
             { deferred(d.scaleMin, d.scaleMax, R(0), d.dataMax) :
                 d \in {tracksRange(scaleSettings, finalMaxIntensity)} } : TRUE
    ELSE IF hasCells
    THEN CHOOSE t \in
             { deferred(d.minValue, d.maxValue, reportMin, reportMax) :
                 d \in {dwellRange(scaleSettings, dwellValues)},
                 reportMin \in {MathRound(dwellValues.min)},
                 reportMax \in {MathRound(dwellValues.max)} } : TRUE
    ELSE <<>>

\* the draw effect
DrawEffect ==
    /\ drawPending
    /\ drawPending' = FALSE
    /\ timers' = timers \o drawTimers
    /\ lastDraw' = IF hasPoints
                   THEN <<tracksRange(scaleSettings, finalMaxIntensity)>>
                   ELSE <<>>
    /\ lastFired' = <<>>
    /\ UNCHANGED <<viewMode, finalMaxIntensity, dwellValues, tracksScaleSettings,
                   dwellScaleSettings, legendValues, changes, outsideScale>>

\* a faulty variant: every report is stored as a new settings object
handleDataRangeChangeAlways(prev, min, max) ==
    [settings |-> [prev EXCEPT !.min = min, !.max = max], updated |-> TRUE]

\* a faulty variant: a differing report is stored whether or not auto is set
handleDataRangeChangeIgnoresAuto(prev, min, max) ==
    IF RNe(prev.min, min) \/ RNe(prev.max, max)
    THEN [settings |-> [prev EXCEPT !.min = min, !.max = max], updated |-> TRUE]
    ELSE [settings |-> prev, updated |-> FALSE]

\* handleTracksDataRangeChange / handleDwellDataRangeChange: the state
\* setter keeps prev, and React skips the render, unless the report differs
handleDataRangeChange(prev, min, max) ==
    IF prev.auto /\ (RNe(prev.min, min) \/ RNe(prev.max, max))
    THEN [settings |-> [prev EXCEPT !.min = min, !.max = max], updated |-> TRUE]
    ELSE [settings |-> prev, updated |-> FALSE]

\* the oldest timer runs
TimerFires ==
    /\ timers # <<>>
    /\ timers' = Tail(timers)
    /\ lastFired' = <<[timer |-> Head(timers),
                       prev |-> IF Head(timers).mode = "tracks" THEN tracksScaleSettings
                                ELSE dwellScaleSettings]>>
    /\ LET t == Head(timers)
       IN  IF t.kind = "legend"
           THEN /\ legendValues' = <<[min |-> t.min, max |-> t.max]>>
                /\ drawPending' = TRUE
                /\ UNCHANGED <<tracksScaleSettings, dwellScaleSettings>>
           ELSE \E r \in {handleDataRangeChange(
                              IF t.mode = "tracks" THEN tracksScaleSettings
                              ELSE dwellScaleSettings, t.min, t.max)} :
                /\ tracksScaleSettings' =
                       IF t.mode = "tracks" THEN r.settings ELSE tracksScaleSettings
                /\ dwellScaleSettings' =
                       IF t.mode = "dwell" THEN r.settings ELSE dwellScaleSettings
                /\ drawPending' = (drawPending \/ (r.updated /\ t.mode = viewMode))
                /\ UNCHANGED legendValues
    /\ UNCHANGED <<viewMode, finalMaxIntensity, dwellValues, lastDraw, changes, outsideScale>>

\* the data, the alignment or the viewport changes
InputsChange(peak, values) ==
    /\ ~drawPending /\ changes < MaxChanges
    /\ finalMaxIntensity' = peak
    /\ dwellValues' = values
    /\ drawPending' = TRUE
    /\ changes' = changes + 1
    /\ lastFired' = <<>>
    /\ UNCHANGED <<viewMode, tracksScaleSettings, dwellScaleSettings, legendValues,
                   timers, lastDraw, outsideScale>>

\* the Tracks / Dwell Time buttons of HeatmapPanel
onViewModeChange(mode) ==
    /\ ~drawPending /\ changes < MaxChanges
    /\ mode # viewMode
    /\ viewMode' = mode
    /\ drawPending' = TRUE
    /\ changes' = changes + 1
    /\ lastFired' = <<>>
    /\ UNCHANGED <<finalMaxIntensity, dwellValues, tracksScaleSettings, dwellScaleSettings,
                   legendValues, timers, lastDraw, outsideScale>>

\* parsed || alt
OrElse(parsed, alt) == IF parsed = NaN \/ parsed = R(0) THEN alt ELSE parsed

\* onScaleSettingsChange of the current view mode
onScaleSettingsChange(settings) ==
    /\ tracksScaleSettings' = IF viewMode = "tracks" THEN settings ELSE tracksScaleSettings
    /\ dwellScaleSettings' = IF viewMode = "dwell" THEN settings ELSE dwellScaleSettings

\* onChange of the legend's max input (rendered once legendValues is set)
LegendMaxChanged(parsed) ==
    /\ ~drawPending /\ changes < MaxChanges
    /\ legendValues # Undefined
    /\ LET newMax == RMax(R(1), OrElse(parsed, R(1)))
       IN  onScaleSettingsChange([scaleSettings EXCEPT !.auto = FALSE, !.max = newMax])
    /\ drawPending' = TRUE
    /\ changes' = changes + 1
    /\ lastFired' = <<>>
    /\ UNCHANGED <<viewMode, finalMaxIntensity, dwellValues, legendValues, timers,
                   lastDraw, outsideScale>>

\* onChange of the legend's min input
LegendMinChanged(parsed) ==
    /\ ~drawPending /\ changes < MaxChanges
    /\ legendValues # Undefined
    /\ LET newMin == RMax(R(0), OrElse(parsed, R(0)))
       IN  onScaleSettingsChange([scaleSettings EXCEPT !.auto = FALSE, !.min = newMin])
    /\ drawPending' = TRUE
    /\ changes' = changes + 1
    /\ lastFired' = <<>>
    /\ UNCHANGED <<viewMode, finalMaxIntensity, dwellValues, legendValues, timers,
                   lastDraw, outsideScale>>

ScaleNext ==
    \/ DrawEffect
    \/ TimerFires
    \/ \E peak \in PeakInputs, values \in DwellInputs : InputsChange(peak, values)
    \/ \E mode \in {"tracks", "dwell"} : onViewModeChange(mode)
    \/ \E parsed \in ParsedInputs : LegendMaxChanged(parsed)
    \/ \E parsed \in ParsedInputs : LegendMinChanged(parsed)

\* a pending draw effect runs, and a timer that was set runs
SpecScale ==
    ScaleInit /\ [][ScaleNext]_vars /\ WF_vars(DrawEffect) /\ WF_vars(TimerFires)

Settled == ~drawPending /\ timers = <<>>

\* the range the rasterizer computes from the current inputs (none without data)
currentRange ==
    IF hasPoints
    THEN CHOOSE r \in
             { <<[min |-> d.scaleMin, max |-> d.scaleMax]>> :
                 d \in {tracksRange(scaleSettings, finalMaxIntensity)} } : TRUE
    ELSE IF hasCells
    THEN LET d == dwellRange(scaleSettings, dwellValues)
         IN  <<[min |-> d.minValue, max |-> d.maxValue]>>
    ELSE Undefined

\* the range the rasterizer reports upward from the current inputs
currentReport ==
    IF ~scaleSettings.auto THEN Undefined
    ELSE IF hasPoints
    THEN <<[min |-> R(0), max |-> tracksRange(scaleSettings, finalMaxIntensity).dataMax]>>
    ELSE IF hasCells
    THEN <<[min |-> MathRound(dwellValues.min), max |-> MathRound(dwellValues.max)]>>
    ELSE Undefined

\* a range report that equals the stored range runs
EqualReportRuns ==
    /\ timers # <<>>
    /\ timers' = Tail(timers)
    /\ Head(timers).kind = "range"
    /\ LET t == Head(timers)
           stored == IF t.mode = "tracks" THEN tracksScaleSettings ELSE dwellScaleSettings
       IN  stored.min = t.min /\ stored.max = t.max

C19_TracksDisplayRange ==
    lastDraw # <<>> =>
        LET d == lastDraw[1]
        IN  /\ d.settings.auto =>
                   /\ d.scaleMin = R(0)
                   /\ d.scaleMax = R(d.peak[1] * intensityToTracks)
            /\ ~d.settings.auto =>
                   /\ d.scaleMin = d.settings.min
                   /\ d.scaleMax = d.settings.max
            /\ IsFinite(d.range) /\ d.range # R(0)
            /\ \A rawIntensity \in 0..d.peak[1] :
                   \E n \in {normalizedIntensity(R(rawIntensity), d.pixelMin, d.range)} :
                       RLe(R(0), n) /\ RLe(n, R(1))

\* a manual range narrower than one pixel step was drawn over a layer with
\* a positive peak: the divisor is the floor 1, not the difference
C19_Witness ==
    /\ lastDraw # <<>>
    /\ ~lastDraw[1].settings.auto
    /\ RLt(R(0), lastDraw[1].peak)
    /\ RLt(RSub(lastDraw[1].pixelMax, lastDraw[1].pixelMin), R(1))
    /\ lastDraw[1].range = R(1)

-----------------------------------------------------------------------------
(* The color ramps: getHeatmapColor of utils/coordinates and the inline    *)
(* ramp of the tracks rasterizer, each applied to a normalised intensity.  *)

RampSteps == 25

\* the intensities k / (4 * RampSteps) of [0, 1]: the five stops are among them
Intensities == {Q(k, 4 * RampSteps) : k \in 0..(4 * RampSteps)}

RampInit ==
    /\ rampIn \in Intensities
    /\ rampOut = [util |-> <<>>, raster |-> <<>>]
    /\ OutsideRampIdle

\* a faulty variant: the green channel of the last segment rises
getHeatmapColorRising(intensity, alpha) ==
    CHOOSE color \in UNION {
        IF RLt(i, Q(1, 4))
        THEN { <<R(0), MathRound(RMul(R(255), t)), R(255), alpha>> :
                   t \in {RDiv(i, Q(1, 4))} }
        ELSE IF RLt(i, Q(1, 2))
        THEN { <<R(0), R(255), MathRound(RMul(R(255), RSub(R(1), t))), alpha>> :
                   t \in {RDiv(RSub(i, Q(1, 4)), Q(1, 4))} }
        ELSE IF RLt(i, Q(3, 4))
        THEN { <<MathRound(RMul(R(255), t)), R(255), R(0), alpha>> :
                   t \in {RDiv(RSub(i, Q(1, 2)), Q(1, 4))} }
        ELSE { <<R(255), MathRound(RMul(R(255), t)), R(0), alpha>> :
                   t \in {RDiv(RSub(i, Q(3, 4)), Q(1, 4))} } :
        i \in {RMax(R(0), RMin(R(1), intensity))} } : TRUE

\* getHeatmapColor: the r, g, b and alpha of the rgba(...) string it returns
getHeatmapColor(intensity, alpha) ==
    CHOOSE color \in UNION {
        IF RLt(i, Q(1, 4))
        THEN { <<R(0), MathRound(RMul(R(255), t)), R(255), alpha>> :
                   t \in {RDiv(i, Q(1, 4))} }
        ELSE IF RLt(i, Q(1, 2))
        THEN { <<R(0), R(255), MathRound(RMul(R(255), RSub(R(1), t))), alpha>> :
                   t \in {RDiv(RSub(i, Q(1, 4)), Q(1, 4))} }
        ELSE IF RLt(i, Q(3, 4))
        THEN { <<MathRound(RMul(R(255), t)), R(255), R(0), alpha>> :
                   t \in {RDiv(RSub(i, Q(1, 2)), Q(1, 4))} }
        ELSE { <<R(255), MathRound(RMul(R(255), RSub(R(1), t))), R(0), alpha>> :
                   t \in {RDiv(RSub(i, Q(3, 4)), Q(1, 4))} } :
        i \in {RMax(R(0), RMin(R(1), intensity))} } : TRUE

\* the pixel the rasterizer writes for a normalised intensity: r, g, b and
\* alpha above the transparency threshold, alpha 0 alone at or below it
colorize(intensity) ==
    IF RLt(Q(2, 100), intensity)
    THEN CHOOSE pixel \in
             { [rgb |-> IF RLt(t4, R(1))
                        THEN <<R(0), MathFloor(RMul(R(255), t4)), R(255)>>
                        ELSE IF RLt(t4, R(2))
                        THEN <<R(0), R(255), MathFloor(RMul(R(255), RSub(R(2), t4)))>>
                        ELSE IF RLt(t4, R(3))
                        THEN <<MathFloor(RMul(R(255), RSub(t4, R(2)))), R(255), R(0)>>
                        ELSE <<R(255), MathFloor(RMul(R(255), RSub(R(4), t4))), R(0)>>,
                a |-> MathFloor(RMul(R(220), RMin(R(1), RMul(intensity, Q(3, 2)))))] :
                 t4 \in {RMul(intensity, R(4))} } : TRUE
    ELSE [rgb |-> <<>>, a |-> R(0)]

\* getHeatmapColor(intensity) with the default alpha
ApplyGetHeatmapColor ==
    /\ rampOut.util = <<>>
    /\ rampOut' = [rampOut EXCEPT !.util = <<getHeatmapColor(rampIn, Q(7, 10))>>]
    /\ UNCHANGED <<rampIn, outsideRamp>>

\* one pixel of the colorize loop
ApplyColorize ==
    /\ rampOut.raster = <<>>
    /\ rampOut' = [rampOut EXCEPT !.raster = <<colorize(rampIn)>>]
    /\ UNCHANGED <<rampIn, outsideRamp>>

RampNext == ApplyGetHeatmapColor \/ ApplyColorize

SpecRamp == RampInit /\ [][RampNext]_vars

\* the five stops of the ramp
Stops ==
    { <<R(0), <<R(0), R(0), R(255)>> >>,
      <<Q(1, 4), <<R(0), R(255), R(255)>> >>,
      <<Q(1, 2), <<R(0), R(255), R(0)>> >>,
      <<Q(3, 4), <<R(255), R(255), R(0)>> >>,
      <<R(1), <<R(255), R(0), R(0)>> >> }

IsChannel(c) == c[2] = 1 /\ c[1] \in 0..255

\* C20: getHeatmapColor maps the intensities 0, 0.25, 0.5, 0.75 and 1 to
\* (0,0,255), (0,255,255), (0,255,0), (255,255,0) and (255,0,0); so does the
\* rasterizer's inline ramp at every stop above its transparency threshold;
\* and for every intensity in [0, 1] each color channel either ramp writes
\* is an integer in 0..255.
C20_RampStops ==
    /\ rampOut.util # <<>> =>
           LET color == rampOut.util[1]
           IN  /\ \A stop \in Stops :
                      rampIn = stop[1] => <<color[1], color[2], color[3]>> = stop[2]
               /\ \A k \in 1..3 : IsChannel(color[k])
    /\ rampOut.raster # <<>> /\ rampOut.raster[1].rgb # <<>> =>
           LET pixel == rampOut.raster[1]
           IN  /\ \A stop \in Stops : rampIn = stop[1] => pixel.rgb = stop[2]
               /\ \A k \in 1..3 : IsChannel(pixel.rgb[k])
               /\ IsChannel(pixel.a)

\* both ramps have been applied at the stop 0.75 and give yellow
C20_Witness ==
    /\ rampIn = Q(3, 4)
    /\ rampOut.util # <<>> /\ rampOut.raster # <<>>
    /\ rampOut.util[1] = <<R(255), R(255), R(0), Q(7, 10)>>
    /\ rampOut.raster[1].rgb = <<R(255), R(255), R(0)>>

-----------------------------------------------------------------------------
(* Tracks accumulation: the loop of the draw effect that fills one radial  *)
(* gradient per point into the intensity canvas with additive blending.    *)
(* The canvas is opaque black before the first point; its channels are     *)
(* bytes.  Pixels are sampled along the row of the point centres.  How a   *)
(* browser rounds a gradient color to a byte is not fixed by the program:  *)
(* either neighbouring byte may be written.                                *)

MaxPoints == 3

radius == 8

\* x of the sampled pixels, and of the centres of the points drawn
SamplePixels == {0, 4, 8, 12, 16}

PointCentres == {4, 8, 12}

\* the points of the dataset already drawn at x = 8 when the model starts
PriorPoints == {0, 31}

\* the opacity of the gradient at the fraction t of its radius:
\* stops (0, 0.03), (0.5, 0.015), (1, 0)
gradientAlpha(t) ==
    IF RLe(t, Q(1, 2))
    THEN RSub(Q(3, 100), RMul(Q(15, 1000), RDiv(t, Q(1, 2))))
    ELSE RSub(Q(15, 1000), RMul(Q(15, 1000), RDiv(RSub(t, Q(1, 2)), Q(1, 2))))

\* the byte one white gradient adds to the pixel at x: 0 outside the arc,
\* else 255 * alpha rounded down or up
sourceByte(x, centerX, roundUp) ==
    CHOOSE byte \in UNION {
        IF RLt(R(1), t) THEN {0}
        ELSE { IF roundUp /\ exact # MathFloor(exact)
               THEN MathFloor(exact)[1] + 1 ELSE MathFloor(exact)[1] :
                   exact \in {RMul(R(255), gradientAlpha(t))} } :
        t \in {RDiv(RAbs(RSub(R(x), R(centerX))), RMul(R(radius), zoom))} } : TRUE

\* a faulty variant: the sum wraps around instead of saturating
lighterWrapping(backdrop, source) == (backdrop + source) % 256

\* globalCompositeOperation = 'lighter' on an opaque backdrop
lighter(backdrop, source) == IF backdrop + source > 255 THEN 255 ELSE backdrop + source

fillGradient(canvas, centerX, roundUp) ==
    [x \in SamplePixels |-> lighter(canvas[x], sourceByte(x, centerX, roundUp))]

\* the loop body run count times for points that share one centre
RECURSIVE lighterMany(_, _, _)
lighterMany(backdrop, source, count) ==
    IF count = 0 THEN backdrop
    ELSE CHOOSE byte \in { lighterMany(next, source, count - 1) :
                               next \in {lighter(backdrop, source)} } : TRUE

fillMany(canvas, centerX, count) ==
    [x \in SamplePixels |->
        CHOOSE byte \in { lighterMany(canvas[x], source, count) :
                              source \in {sourceByte(x, centerX, TRUE)} } : TRUE]

\* fillStyle = 'black'; fillRect(0, 0, width, height)
blackCanvas == [x \in SamplePixels |-> 0]

AccumInit ==
    /\ OutsideAccumIdle
    /\ \E prior \in PriorPoints : intensityCanvas = fillMany(blackCanvas, 8, prior)
    /\ canvasBefore = <<>>
    /\ pointsDrawn = 0

\* one iteration of the loop over the points
FillPoint(centerX, roundUp) ==
    /\ pointsDrawn < MaxPoints
    /\ intensityCanvas' = fillGradient(intensityCanvas, centerX, roundUp)
    /\ canvasBefore' = <<intensityCanvas>>
    /\ pointsDrawn' = pointsDrawn + 1
    /\ UNCHANGED <<outsideAccum>>

AccumNext == \E centerX \in PointCentres, roundUp \in BOOLEAN : FillPoint(centerX, roundUp)

SpecAccum == AccumInit /\ [][AccumNext]_vars

\* C21: drawing one more point lowers the accumulated intensity of no pixel.
C21_DensityMonotone ==
    canvasBefore # <<>> =>
        \A x \in SamplePixels : intensityCanvas[x] >= canvasBefore[1][x]

\* a point was drawn over a pixel that was one gradient short of the channel
\* maximum: the pixel saturates at 255
C21_Witness ==
    /\ canvasBefore # <<>>
    /\ canvasBefore[1][8] = 248
    /\ intensityCanvas[8] = 255

-----------------------------------------------------------------------------
(* Scenario: data to canvas with the frame taken from the data bounds *)

scenarioBounds == <<[min_x |-> R(0), max_x |-> R(100), min_y |-> R(0), max_y |-> R(50)]>>

-----------------------------------------------------------------------------
(* The viewport transforms on their own: applyZoomPan and inverseZoomPan   *)
(* applied to canvas points of the 800x600 canvas.                         *)

CanvasPoints == {Pt(R(200 * i), R(150 * j)) : i \in 0..4, j \in 0..4}

VpInit ==
    /\ vpIn \in [point : CanvasPoints, zoom : ZoomInputs, pan : PanInputs]
    /\ vpOut = [forward |-> Undefined, inverse |-> Undefined]
    /\ OutsideVpIdle

CallApplyZoomPan ==
    /\ vpOut.forward = Undefined
    /\ vpOut' = [vpOut EXCEPT !.forward =
          <<applyZoomPan(vpIn.point.x, vpIn.point.y, vpIn.zoom, vpIn.pan,
                         dimensions.width, dimensions.height)>>]
    /\ UNCHANGED <<vpIn, outsideVp>>

CallInverseZoomPan ==
    /\ vpOut.inverse = Undefined
    /\ vpOut' = [vpOut EXCEPT !.inverse =
          <<inverseZoomPan(vpIn.point.x, vpIn.point.y, vpIn.zoom, vpIn.pan,
                           dimensions.width, dimensions.height)>>]
    /\ UNCHANGED <<vpIn, outsideVp>>

VpNext == CallApplyZoomPan \/ CallInverseZoomPan

SpecViewport == VpInit /\ [][VpNext]_vars

vpScenario == vpIn.zoom = R(2) /\ vpIn.pan = Pt(R(0), R(0))

\* C23: on the 800x600 canvas (centre (400,300)) applyZoomPan(p) is
\* (p - centre) * zoom + centre + pan and inverseZoomPan(s) is
\* (s - pan - centre) / zoom + centre; with zoom 2 and pan (0,0),
\* inverseZoomPan maps (400,300) to itself and (0,0) to (200,150).
C23_ViewportValues ==
    /\ vpOut.forward # Undefined =>
          /\ vpOut.forward[1].x =
                RAdd(RAdd(RMul(RSub(vpIn.point.x, R(400)), vpIn.zoom), R(400)), vpIn.pan.x)
          /\ vpOut.forward[1].y =
                RAdd(RAdd(RMul(RSub(vpIn.point.y, R(300)), vpIn.zoom), R(300)), vpIn.pan.y)
    /\ vpOut.inverse # Undefined =>
          /\ vpOut.inverse[1].x =
                RAdd(RDiv(RSub(RSub(vpIn.point.x, vpIn.pan.x), R(400)), vpIn.zoom), R(400))
          /\ vpOut.inverse[1].y =
                RAdd(RDiv(RSub(RSub(vpIn.point.y, vpIn.pan.y), R(300)), vpIn.zoom), R(300))
          /\ (vpScenario /\ vpIn.point = Pt(R(400), R(300))) =>
                vpOut.inverse[1] = Pt(R(400), R(300))
          /\ (vpScenario /\ vpIn.point = Pt(R(0), R(0))) =>
                vpOut.inverse[1] = Pt(R(200), R(150))

\* inverseZoomPan has been applied to the canvas corner (0,0) at zoom 2, pan (0,0)
C23_Witness ==
    /\ vpScenario
    /\ vpIn.point = Pt(R(0), R(0))
    /\ vpOut.inverse = <<Pt(R(200), R(150))>>

-----------------------------------------------------------------------------
(* Calibration and invertibility *)

\* C26 (as stated): every affine alignment installed by a completed
\* calibration has |a*d - b*c| >= 1e-10 (the test under which
\* inverseTransformPoint inverts the matrix instead of returning its input).
C26_InstalledAffineInvertible ==
    (effectRan /\ lastToast = "calibration-applied") =>
        /\ usesAffine(filtersAdj)
        /\ ~BelowEps(affineDet(filtersAdj.affine[1]))

-----------------------------------------------------------------------------
(* Manual scale and late range reports *)

\* a step of the rasterizer or of a timer, not an edit of the legend inputs
NoOperatorStep == changes' = changes

\* C27: while scaleSettings.auto is false, no draw and no deferred callback
\* changes the stored settings of that panel; in particular a range report
\* scheduled while auto was true that runs after the operator typed a bound
\* leaves min and max as typed.
C27_ManualScaleKept ==
    [][NoOperatorStep =>
          /\ ~tracksScaleSettings.auto => tracksScaleSettings' = tracksScaleSettings
          /\ ~dwellScaleSettings.auto => dwellScaleSettings' = dwellScaleSettings]_vars

\* a range report that differs from the typed bounds has just run on manual
\* settings, which are as they were
C27_Witness ==
    /\ lastFired # <<>>
    /\ lastFired[1].timer.kind = "range"
    /\ lastFired[1].timer.mode = "tracks"
    /\ ~lastFired[1].prev.auto
    /\ RNe(lastFired[1].timer.max, lastFired[1].prev.max)
    /\ tracksScaleSettings = lastFired[1].prev

-----------------------------------------------------------------------------
(* One gesture at a time *)

\* C29 (as stated): in every reachable state a zone rectangle in progress
\* (drawing not null) and an active pan (isPanning) do not hold together.
C29_SingleActiveGesture == ~(drawing # Undefined /\ isPanning)

-----------------------------------------------------------------------------
(* Drawing a zone and seeing it again: the mouse handlers of HeatmapCanvas  *)
(* in drawing mode, under alignments that keep the axes (rotation 0 with    *)
(* positive scales, or an affine matrix with b = c = 0 and a, d > 0) and    *)
(* under several viewports.                                                 *)

AxisAlignedAdjustments ==
    { IdleAdjustment,
      [IdleAdjustment EXCEPT !.offsetX = R(10), !.scale = R(2), !.scaleX = R(2),
                             !.scaleY = Q(1, 2), !.lockAspectRatio = FALSE],
      [IdleAdjustment EXCEPT !.useAffine = TRUE,
                             !.affine = <<[a |-> R(2), b |-> R(0), c |-> R(0), d |-> Q(1, 2),
                                           tx |-> R(5), ty |-> R(-20)]>>] }

ZoneZooms == {R(1), R(2)}

\* the draw-zone button has been pressed
ZoneInit ==
    /\ filtersAdj \in AxisAlignedAdjustments
    /\ calibration = [isCalibrating |-> FALSE, step |-> "heatmap",
                      heatmapPoints |-> <<>>, floorplanPoints |-> <<>>]
    /\ isDrawingZone = TRUE
    /\ lastToast = "none"
    /\ lastEffect = <<>>
    /\ panelZoom \in ZoneZooms
    /\ zoom = panelZoom
    /\ pan \in PanInputs
    /\ lastWheel = <<>>
    /\ steps = 0
    /\ selectedZone = 0
    /\ isPanning = FALSE
    /\ panStarted = FALSE
    /\ panStartRef = [x |-> R(0), y |-> R(0), panX |-> R(0), panY |-> R(0)]
    /\ drawing = Undefined
    /\ createZoneCalls = <<>>
    /\ gesture = <<>>
    /\ lastUp = <<>>
    /\ zones = StoredZones
    /\ inFlight = <<>>
    /\ mouseEvents = 2
    /\ OutsideMouseIdle

SpecZone == ZoneInit /\ [][MouseNext]_vars

\* the last mouse-up issued a createZone request for the rectangle of drawing
requestIssued ==
    /\ lastUp # <<>>
    /\ drawing # Undefined
    /\ Len(createZoneCalls) = lastUp[1].calls + 1

keepsAxes(adjustment) ==
    IF usesAffine(adjustment)
    THEN LET m == adjustment.affine[1]
         IN  m.b = R(0) /\ m.c = R(0) /\ RLt(R(0), m.a) /\ RLt(R(0), m.d)
    ELSE adjustment.rotation = 0 /\ RLt(R(0), adjustment.scaleX) /\ RLt(R(0), adjustment.scaleY)

\* the corners, the centre and an inner point of the drag rectangle
pointsOfRectangle(d) ==
    LET minX == RMin(d.startX, d.currentX)
        maxX == RMax(d.startX, d.currentX)
        minY == RMin(d.startY, d.currentY)
        maxY == RMax(d.startY, d.currentY)
    IN  { Pt(minX, minY), Pt(maxX, minY), Pt(minX, maxY), Pt(maxX, maxY),
          Pt(RDiv(RAdd(minX, maxX), R(2)), RDiv(RAdd(minY, maxY), R(2))),
          Pt(RAdd(minX, R(1)), RSub(maxY, R(1))) }

\* C25: under an alignment that keeps the axes, the zone requested for a drag
\* rectangle of at least 20 x 20 px is drawn, under the same alignment and
\* viewport, exactly on that rectangle, and its hit test accepts the points
\* of the rectangle.
C25_ZoneRoundTrip ==
    (requestIssued /\ keepsAxes(filtersAdj)) =>
        \E z \in {createZoneCalls[Len(createZoneCalls)]}, d \in {drawing[1]} :
            /\ toScreen(RMin(z.x1, z.x2), RMax(z.y1, z.y2), pan)
                  = Pt(RMin(d.startX, d.currentX), RMin(d.startY, d.currentY))
            /\ toScreen(RMax(z.x1, z.x2), RMin(z.y1, z.y2), pan)
                  = Pt(RMax(d.startX, d.currentX), RMax(d.startY, d.currentY))
            /\ \A p \in pointsOfRectangle(d) : zoneContains(z, p.x, p.y, pan)

\* a zone was requested at zoom 2 under the alignment with unequal scales
C25_Witness ==
    /\ requestIssued
    /\ zoom = R(2)
    /\ ~usesAffine(filtersAdj)
    /\ filtersAdj.scaleX = R(2)
    /\ ~tooSmall(lastUp[1].width, lastUp[1].height)

-----------------------------------------------------------------------------
(* App: loading the alignment of the current floor plan and saving it back. *)
(* The load effect and the debounced auto-save effect run, cleanups first,  *)
(* after every render in which one of their dependencies changed, and       *)
(* before the next user event and before the 1000 ms timer can expire.      *)
(* There is one store, with a floor plan for floor 1 and one for floor 2;   *)
(* while no store is chosen there is no current floor plan.  The points of  *)
(* a calibration session are clicked in one fixed order; toasts are not     *)
(* modelled here.                                                           *)

MaxEdits == 3

\* the store selector: 'Choose a store' (0) or the store
Stores == {0, 1}

storedFloorPlans ==
    << [id |-> 1, floor |-> 1,
        adjust_offset_x |-> R(0), adjust_offset_y |-> R(0), adjust_scale |-> R(1),
        adjust_scale_x |-> R(1), adjust_scale_y |-> R(1), adjust_rotation |-> 0,
        affine |-> Undefined],
       [id |-> 2, floor |-> 2,
        adjust_offset_x |-> R(10), adjust_offset_y |-> R(0), adjust_scale |-> R(2),
        adjust_scale_x |-> R(2), adjust_scale_y |-> R(1), adjust_rotation |-> 0,
        affine |-> Undefined] >>

\* useFloorPlans(filters.storeId): the query is disabled while no store is chosen
floorPlansOfStore == IF storeId = 0 THEN <<>> ELSE floorPlans

\* floorPlans?.map(fp => fp.floor)
availableFloors == {floorPlansOfStore[i].floor : i \in 1..Len(floorPlansOfStore)}

\* floorPlans?.find((fp) => fp.floor === filters.floor)
currentFloorPlan ==
    IF \E i \in 1..Len(floorPlansOfStore) : floorPlans[i].floor = floor
    THEN <<floorPlans[CHOOSE i \in 1..Len(floorPlans) :
                /\ floorPlans[i].floor = floor
                /\ \A j \in 1..(i - 1) : floorPlans[j].floor # floor]>>
    ELSE Undefined

currentFloorPlanId == IF currentFloorPlan = Undefined THEN 0 ELSE currentFloorPlan[1].id

\* the body of the adjustFloorPlan request; affine stands for the six
\* coefficients, Undefined for six nulls
adjustBody(adjustment) ==
    [adjust_offset_x |-> adjustment.offsetX, adjust_offset_y |-> adjustment.offsetY,
     adjust_scale |-> adjustment.scale, adjust_scale_x |-> adjustment.scaleX,
     adjust_scale_y |-> adjustment.scaleY, adjust_rotation |-> adjustment.rotation,
     affine |-> adjustment.affine]

\* the fields of a floor plan that a save writes
adjustFields(fp) ==
    [adjust_offset_x |-> fp.adjust_offset_x, adjust_offset_y |-> fp.adjust_offset_y,
     adjust_scale |-> fp.adjust_scale, adjust_scale_x |-> fp.adjust_scale_x,
     adjust_scale_y |-> fp.adjust_scale_y, adjust_rotation |-> fp.adjust_rotation,
     affine |-> fp.affine]

\* a faulty variant: the affine coefficients are not compared
isDifferentSimpleOnly(adjustment, fp) ==
    \/ adjustment.offsetX # fp.adjust_offset_x
    \/ adjustment.offsetY # fp.adjust_offset_y
    \/ adjustment.scale # fp.adjust_scale
    \/ adjustment.scaleX # fp.adjust_scale_x
    \/ adjustment.scaleY # fp.adjust_scale_y
    \/ adjustment.rotation # fp.adjust_rotation

\* isDifferent of the auto-save effect
isDifferent(adjustment, fp) ==
    \/ adjustment.offsetX # fp.adjust_offset_x
    \/ adjustment.offsetY # fp.adjust_offset_y
    \/ adjustment.scale # fp.adjust_scale
    \/ adjustment.scaleX # fp.adjust_scale_x
    \/ adjustment.scaleY # fp.adjust_scale_y
    \/ adjustment.rotation # fp.adjust_rotation
    \/ adjustment.affine # fp.affine

\* the alignment the load effect sets
loadedAdjustment(fp) ==
    [offsetX |-> fp.adjust_offset_x, offsetY |-> fp.adjust_offset_y,
     scale |-> fp.adjust_scale, scaleX |-> fp.adjust_scale_x, scaleY |-> fp.adjust_scale_y,
     rotation |-> fp.adjust_rotation,
     lockAspectRatio |-> (fp.adjust_scale_x = fp.adjust_scale_y),
     useAffine |-> (fp.affine # Undefined), affine |-> fp.affine]

AlignInit ==
    /\ storeId \in Stores
    /\ floor = 1
    /\ floorPlans = storedFloorPlans
    /\ lastLoadedFloorPlanId = 0
    /\ saveTimeout = Undefined
    /\ effectDeps = <<>>
    /\ lastSave = <<>>
    /\ inFlightSaves = <<>>
    /\ editedUnder = 0
    /\ edits = 0
    /\ AppIdle
    /\ OutsideAlignIdle

\* a dependency of the load effect or of the auto-save effect has changed
AlignEffectsPending ==
    effectDeps # <<[plan |-> currentFloorPlan, adjustment |-> filtersAdj]>>

\* no effect is waiting to run
AtRest == ~AlignEffectsPending /\ ~EffectPending

\* the cleanup of the auto-save effect, the load effect, the auto-save effect
FlushEffects ==
    /\ AlignEffectsPending
    /\ LET loads == /\ currentFloorPlan # Undefined
                    /\ currentFloorPlanId # lastLoadedFloorPlanId
                    /\ (effectDeps = <<>> \/ effectDeps[1].plan # currentFloorPlan)
       IN  /\ lastLoadedFloorPlanId' = IF loads THEN currentFloorPlanId
                                       ELSE lastLoadedFloorPlanId
           /\ filtersAdj' = IF loads THEN loadedAdjustment(currentFloorPlan[1])
                            ELSE filtersAdj
           /\ editedUnder' = IF loads THEN currentFloorPlanId ELSE editedUnder
    /\ saveTimeout' =
          IF currentFloorPlan # Undefined /\ isDifferent(filtersAdj, currentFloorPlan[1])
          THEN <<[id |-> currentFloorPlanId, adjustment |-> filtersAdj,
                  editedUnder |-> editedUnder]>>
          ELSE Undefined
    /\ effectDeps' = <<[plan |-> currentFloorPlan, adjustment |-> filtersAdj]>>
    /\ UNCHANGED <<storeId, floor, floorPlans, lastSave, inFlightSaves, edits,
                   calibration, isDrawingZone, lastToast, lastEffect, outsideAlign>>

\* the timer expires: saveAdjustments up to the await
SaveTimerFires ==
    /\ AtRest
    /\ saveTimeout # Undefined
    /\ saveTimeout' = Undefined
    /\ lastSave' = <<[id |-> saveTimeout[1].id,
                      body |-> adjustBody(saveTimeout[1].adjustment),
                      editedUnder |-> saveTimeout[1].editedUnder,
                      currentId |-> currentFloorPlanId]>>
    /\ inFlightSaves' = Append(inFlightSaves,
          [id |-> saveTimeout[1].id, body |-> adjustBody(saveTimeout[1].adjustment)])
    /\ UNCHANGED <<storeId, floor, floorPlans, lastLoadedFloorPlanId, effectDeps, editedUnder, edits,
                   appVars, outsideAlign>>

\* saveAdjustments after the await: setQueryData on success, a toast on failure
SaveSettles(ok) ==
    /\ AtRest
    /\ inFlightSaves # <<>>
    /\ inFlightSaves' = Tail(inFlightSaves)
    /\ IF ok
       THEN /\ floorPlans' =
                  [i \in 1..Len(floorPlans) |->
                      IF floorPlans[i].id = Head(inFlightSaves).id
                      THEN [id |-> floorPlans[i].id, floor |-> floorPlans[i].floor]
                               @@ Head(inFlightSaves).body
                      ELSE floorPlans[i]]
       ELSE UNCHANGED floorPlans
    /\ UNCHANGED <<storeId, floor, lastLoadedFloorPlanId, saveTimeout, effectDeps, lastSave,
                   editedUnder, edits, appVars, outsideAlign>>

\* the store selector
StoreChanged(id) ==
    /\ AtRest /\ edits < MaxEdits
    /\ id # storeId
    /\ storeId' = id
    /\ edits' = edits + 1
    /\ lastSave' = Undefined
    /\ UNCHANGED <<floor, floorPlans, lastLoadedFloorPlanId, saveTimeout, effectDeps,
                   inFlightSaves, editedUnder, appVars, outsideAlign>>

\* the floor selector (rendered with the floors that have a floor plan)
FloorChanged(f) ==
    /\ AtRest /\ edits < MaxEdits
    /\ f \in availableFloors
    /\ f # floor
    /\ floor' = f
    /\ edits' = edits + 1
    /\ lastSave' = Undefined
    /\ UNCHANGED <<storeId, floorPlans, lastLoadedFloorPlanId, saveTimeout, effectDeps,
                   inFlightSaves, editedUnder, appVars, outsideAlign>>

\* Sidebar: the Lock ratio checkbox
lockRatioChanged(adjustment, checked) ==
    [adjustment EXCEPT !.lockAspectRatio = checked,
                       !.scaleY = IF checked THEN adjustment.scaleX ELSE adjustment.scaleY]

\* Sidebar: the Scale X number input and slider
scaleXChanged(adjustment, newScale) ==
    [adjustment EXCEPT !.scaleX = newScale,
                       !.scaleY = IF adjustment.lockAspectRatio THEN newScale
                                  ELSE adjustment.scaleY,
                       !.scale = newScale]

\* Sidebar: the + button of the Scale X nudge
scaleXNudgedUp(adjustment) ==
    [adjustment EXCEPT !.scaleX = RMin(R(3), RAdd(adjustment.scaleX, Q(1, 100)))]

\* Sidebar: handleReset
resetAdjustment ==
    [offsetX |-> R(0), offsetY |-> R(0), rotation |-> 0, scale |-> R(1),
     scaleX |-> R(1), scaleY |-> R(1), lockAspectRatio |-> TRUE,
     useAffine |-> FALSE, affine |-> Undefined]

\* the alignments one sidebar operation can produce
SidebarResults(adjustment) ==
    { lockRatioChanged(adjustment, ~adjustment.lockAspectRatio),
      scaleXChanged(adjustment, R(2)),
      scaleXNudgedUp(adjustment),
      resetAdjustment }

\* onFloorPlanAdjustmentChange (the controls are rendered for a floor plan only)
onFloorPlanAdjustmentChange(adj) ==
    /\ AtRest /\ edits < MaxEdits
    /\ currentFloorPlan # Undefined
    /\ adj # filtersAdj
    /\ filtersAdj' = adj
    /\ editedUnder' = currentFloorPlanId
    /\ edits' = edits + 1
    /\ lastSave' = Undefined
    /\ UNCHANGED <<storeId, floor, floorPlans, lastLoadedFloorPlanId, saveTimeout, effectDeps,
                   inFlightSaves, calibration, isDrawingZone, lastToast,
                   lastEffect, outsideAlign>>

\* Sidebar: the Auto-Calibrate button (handleStartCalibration)
StartCalibrationPressed ==
    /\ AtRest /\ edits < MaxEdits
    /\ currentFloorPlan # Undefined
    /\ ~calibration.isCalibrating
    /\ filtersAdj' = resetAdjustment
    /\ calibration' = [isCalibrating |-> TRUE, step |-> "heatmap",
                       heatmapPoints |-> <<>>, floorplanPoints |-> <<>>]
    /\ isDrawingZone' = FALSE
    /\ editedUnder' = currentFloorPlanId
    /\ edits' = edits + 1
    /\ lastSave' = Undefined
    \* the alignment is a new object, equal to the old one or not
    /\ effectDeps' = Undefined
    /\ UNCHANGED <<storeId, floor, floorPlans, lastLoadedFloorPlanId, saveTimeout,
                   inFlightSaves, lastToast, lastEffect, outsideAlign>>

\* the six points of a session, in the order they are clicked
calibrationClicks ==
    << Pt(R(0), R(0)), Pt(R(10), R(0)), Pt(R(0), R(10)),
       Pt(R(5), R(5)), Pt(R(15), R(5)), Pt(R(5), R(15)) >>

\* a click on the canvas during a session (the canvas is shown with or
\* without a floor plan)
CalibrationPointClicked ==
    /\ AtRest
    /\ calibration.isCalibrating
    /\ LET clicked == Len(calibration.heatmapPoints) + Len(calibration.floorplanPoints)
       IN  calibration' = handleCalibrationPointClick(calibration,
                                                      calibrationClicks[clicked + 1])
    /\ UNCHANGED <<filtersAdj, isDrawingZone, lastToast, lastEffect, alignVars, outsideAlign>>

\* the compute-calibration effect
CalibrationComputed ==
    /\ EffectPending
    /\ \E affine \in {solveAffineTransform(calibration.heatmapPoints,
                                            calibration.floorplanPoints)} :
           IF affine = Undefined
           THEN /\ calibration' = failedCalibration
                /\ UNCHANGED <<filtersAdj, editedUnder, lastSave, effectDeps>>
           ELSE /\ filtersAdj' = appliedAdjustment(filtersAdj, affine)
                /\ editedUnder' = currentFloorPlanId
                /\ lastSave' = Undefined
                /\ effectDeps' = Undefined
                /\ calibration' = [isCalibrating |-> FALSE, step |-> "heatmap",
                                   heatmapPoints |-> <<>>, floorplanPoints |-> <<>>]
    /\ UNCHANGED <<storeId, floor, floorPlans, lastLoadedFloorPlanId, saveTimeout,
                   inFlightSaves, edits, isDrawingZone, lastToast, lastEffect,
                   outsideAlign>>

AlignNext ==
    \/ FlushEffects
    \/ SaveTimerFires
    \/ \E ok \in BOOLEAN : SaveSettles(ok)
    \/ \E id \in Stores : StoreChanged(id)
    \/ \E f \in availableFloors : FloorChanged(f)
    \/ \E adj \in SidebarResults(filtersAdj) : onFloorPlanAdjustmentChange(adj)
    \/ StartCalibrationPressed
    \/ CalibrationPointClicked
    \/ CalibrationComputed

SpecAlign ==
    /\ AlignInit
    /\ [][AlignNext]_vars
    /\ WF_vars(FlushEffects)
    /\ WF_vars(CalibrationComputed)
    /\ WF_vars(SaveTimerFires)

-----------------------------------------------------------------------------
(* Claims about the stored alignment *)

\* C30 (as stated): whenever lockAspectRatio is true, scaleX equals scaleY,
\* after any sequence of sidebar operations, floor-plan loads and
\* calibration completions.
C30_LockedAspectRatio ==
    filtersAdj.lockAspectRatio => filtersAdj.scaleX = filtersAdj.scaleY

\* a save is issued under the id of the floor plan that is current, and the
\* alignment it carries was last loaded or edited while that floor plan was current
saveOfOwnAlignment(save) ==
    /\ save.id = save.currentId
    /\ save.editedUnder = save.id

differsFromStored ==
    /\ currentFloorPlan # Undefined
    /\ adjustBody(filtersAdj) # adjustFields(currentFloorPlan[1])

\* a save request for the current floor plan, carrying the six scalars and the
\* affine coefficients of the in-memory alignment, was issued after its last change
savedAsItIs ==
    /\ lastSave # Undefined
    /\ lastSave[1].id = currentFloorPlanId
    /\ lastSave[1].body = adjustBody(filtersAdj)

\* C24: once the alignment and the selection change no more, a difference
\* between the in-memory alignment and the alignment stored for the current
\* floor plan has been answered by a save request, issued for that floor plan
\* and carrying the full in-memory alignment.
C24_AlignmentSaved == <>[](differsFromStored => savedAsItIs)

\* a calibration result that differs from the stored alignment has been sent
C24_Witness ==
    /\ differsFromStored
    /\ savedAsItIs
    /\ filtersAdj.affine # Undefined
    /\ inFlightSaves # <<>>

=============================================================================
